---- MODULE Spec2Model ----
(***************************************************************************)
(* Model of the k-mer reference counter: the radix-5 codec                 *)
(* (kmer_codec.rs), the blacklist interval algebra (blacklist.rs), the     *)
(* windowed scans (counting.rs, bin/reference.rs).                         *)
(***************************************************************************)
EXTENDS Integers, Sequences, FiniteSets, TLC

VARIABLES codec, merge, mask, overlap, chrom,
          counting, folding, universe, writing, batch, widthsel,
          parsing, pipeline

vars == <<codec, merge, mask, overlap, chrom,
         counting, folding, universe, writing, batch, widthsel,
         parsing, pipeline>>

(***************************************************************************)
(* Bounds of the model.                                                    *)
(***************************************************************************)
\* Sequences up to this length are drawn over the whole byte sample.
MaxFullLen == 3
\* Longer sequences (two runs of bytes) exceed k by at most this much.
Slack == 2
\* Interval coordinates of the merge inputs are drawn from 0..MaxMergeCoord.
MaxMergeCoord == 3
\* Longest interval list given to merge_intervals.
MaxMergeIvs == 3
\* Longest sequence given to the mask; coordinates go one past it.
MaxMaskLen == 3
\* Longest interval list given to the mask.
MaxMaskIvs == 2
\* Interval and query coordinates of the overlap queries: 0..MaxOvCoord.
MaxOvCoord == 5
\* Most intervals of a blacklist in the overlap queries.
MaxOvIvs == 2
\* Most queries that share one pointer.
MaxQueries == 3
\* Longest chromosome of a unit; its coordinates go one past the end.
MaxChromLen == 3
\* Largest k of a unit's k-mer specs.
MaxChromK == 3
\* Most windows of a unit's external window list.
MaxWindows == 1
\* Longest sequence given to count_kmers_by_window; coordinates go one past.
MaxCountLen == 2
\* Largest single k given to count_kmers_by_window.
MaxCountK == 2
\* Most windows given to count_kmers_by_window.
MaxCountWindows == 2
\* Longest motif given to canonical.
MaxMotifLen == 3
\* Most windows given to prepare_decoded_counts.
MaxUniWindows == 2
\* Most rows (windows) given to the writers.
MaxRows == 2
\* Most columns (motifs) given to the writers.
MaxCols == 2
\* Longest chromosome list of a run.
MaxChroms == 2
\* Most lines of the window BED file of a run.
MaxBedLines == 2
\* Largest --n-threads of a run.
MaxThreads == 2
\* Longest BED file given to the readers, in lines.
MaxParseLines == 2
\* Most keys of a map given to collapse_map, and its largest count.
MaxCollapseKeys == 3
MaxCollapseCount == 2

MaxPipeLen == 3

(***************************************************************************)
(* Fixed-width unsigned integers (u64, u128): little-endian sequences of   *)
(* 16-bit limbs, so that 5^27 and the 64-bit sentinels keep their width.   *)
(* Every operation returns the wrapped value v and the overflow flag o.    *)
(***************************************************************************)
Limb == 2^16

RECURSIVE LimbsOf(_, _)
LimbsOf(n, w) ==
    IF w = 0 THEN <<>> ELSE <<n % Limb>> \o LimbsOf(n \div Limb, w - 1)

U64(n) == LimbsOf(n, 4)

U128(n) == LimbsOf(n, 8)

\* `x as u128` for a u64 x
Widen128(x) == x \o <<0, 0, 0, 0>>

RECURSIVE MulAddRaw(_, _, _)
MulAddRaw(x, m, c) ==
    IF x = <<>> THEN <<c>>
    ELSE LET t == Head(x) * m + c
         IN  <<t % Limb>> \o MulAddRaw(Tail(x), m, t \div Limb)

\* x * m for a small m, in the width of x
WrapMul(x, m) ==
    LET r == MulAddRaw(x, m, 0)
    IN  [v |-> SubSeq(r, 1, Len(x)), o |-> r[Len(x) + 1] # 0]

\* x + d for a small d, in the width of x
WrapAdd(x, d) ==
    LET r == MulAddRaw(x, 1, d)
    IN  [v |-> SubSeq(r, 1, Len(x)), o |-> r[Len(x) + 1] # 0]

RECURSIVE SubRaw(_, _, _)
SubRaw(x, y, b) ==
    IF x = <<>> THEN <<b>>
    ELSE LET t == Head(x) - Head(y) - b
         IN  IF t < 0
             THEN <<t + Limb>> \o SubRaw(Tail(x), Tail(y), 1)
             ELSE <<t>> \o SubRaw(Tail(x), Tail(y), 0)

\* x - y in the width of x (o: the subtraction underflowed)
WrapSub(x, y) ==
    LET r == SubRaw(x, y, 0)
    IN  [v |-> SubSeq(r, 1, Len(x)), o |-> r[Len(x) + 1] # 0]

RECURSIVE LimbsLe(_, _)
LimbsLe(x, y) ==
    IF x = <<>> THEN TRUE
    ELSE LET n == Len(x)
         IN  IF x[n] # y[n] THEN x[n] < y[n]
             ELSE LimbsLe(SubSeq(x, 1, n - 1), SubSeq(y, 1, n - 1))

RECURSIVE RemFrom(_, _, _)
RemFrom(x, d, i) ==
    IF i > Len(x) THEN 0 ELSE (RemFrom(x, d, i + 1) * Limb + x[i]) % d

\* x % d and x / d for a small d
ModSmall(x, d) == RemFrom(x, d, 1)

DivSmall(x, d) ==
    [i \in 1..Len(x) |-> (RemFrom(x, d, i + 1) * Limb + x[i]) \div d]

\* base.pow(e) in the width of `one`: the product of e factors, taken six
\* at a time while base^6 is small enough for a limb product (the value
\* and the overflow are those of multiplying one factor at a time)
RECURSIVE WrapPow(_, _, _)
WrapPow(one, base, e) ==
    IF e = 0 THEN [v |-> one, o |-> FALSE]
    ELSE LET c == IF e >= 6 /\ base ^ 6 < 2 ^ 15 THEN 6 ELSE 1
             p == WrapPow(one, base, e - c)
             q == WrapMul(p.v, base ^ c)
         IN  [v |-> q.v, o |-> p.o \/ q.o]

u8_MAX == U64(255)

u16_MAX == U64(65535)

u32_MAX == <<65535, 65535, 0, 0>>

u64_MAX == <<65535, 65535, 65535, 65535>>

(***************************************************************************)
(* kmer_codec.rs                                                           *)
(***************************************************************************)
\* Highest allowed k (build_kmer_specs)
MaxK == 27

BASES == <<"A", "C", "G", "T", "N">>

\* The four backing widths, narrowest first, with their MAX
Widths == <<"U8", "U16", "U32", "U64">>

WidthMax(w) ==
    CASE w = "U8"  -> u8_MAX
      [] w = "U16" -> u16_MAX
      [] w = "U32" -> u32_MAX
      [] w = "U64" -> u64_MAX

\* fits_in!(ty): max_real_code <= (<ty>::MAX as u128 - 2)
fits_in(max_real_code, w) ==
    LimbsLe(max_real_code, WrapSub(Widen128(WidthMax(w)), U128(2)).v)

\* (Width, sentinel_none, sentinel_n) of one width
WidthTriple(w) ==
    [ok |-> TRUE, width |-> w,
     sentinel_none |-> WidthMax(w),
     sentinel_n |-> WrapSub(WidthMax(w), U64(1)).v]

\* choose_width with the two sentinels of a width exchanged
choose_width_swapped(k) ==
    LET p == WrapPow(U128(1), 5, k)
        max_real_code == WrapSub(p.v, U128(1)).v
        w == IF fits_in(max_real_code, "U8") THEN "U8"
             ELSE IF fits_in(max_real_code, "U16") THEN "U16"
             ELSE IF fits_in(max_real_code, "U32") THEN "U32"
             ELSE "U64"
    IN  [ok |-> TRUE, width |-> w,
         sentinel_none |-> WrapSub(WidthMax(w), U64(1)).v,
         sentinel_n |-> WidthMax(w)]

choose_width(k) ==
    LET p == WrapPow(U128(1), 5, k)
        max_real_code == WrapSub(p.v, U128(1)).v
    IN  IF fits_in(max_real_code, "U8") THEN WidthTriple("U8")
        ELSE IF fits_in(max_real_code, "U16") THEN WidthTriple("U16")
        ELSE IF fits_in(max_real_code, "U32") THEN WidthTriple("U32")
        ELSE IF fits_in(max_real_code, "U64") THEN WidthTriple("U64")
        ELSE [ok |-> FALSE, width |-> "none",
              sentinel_none |-> U64(0), sentinel_n |-> U64(0)]

\* One KmerSpec of build_kmer_specs
KmerSpec(k) ==
    LET t == choose_width(k)
    IN  [k |-> k, width |-> t.width,
         sentinel_none |-> t.sentinel_none, sentinel_n |-> t.sentinel_n]

\* ASCII -> radix-5 digit; 4 = N/other
LUT(b) ==
    CASE b \in {"A", "a"} -> 0
      [] b \in {"C", "c"} -> 1
      [] b \in {"G", "g"} -> 2
      [] b \in {"T", "t"} -> 3
      [] OTHER -> 4

encode_base(b) == LUT(b)

(* build_codes, as the state of its two loops: i is the index of the next  *)
(* byte to read, code the radix-5 value of the current window, n_in_window *)
(* the not-a-base counter, ovf whether any u64/u32 operation wrapped.      *)
bc_enter(seq, k, sentinel_none, sentinel_n) ==
    IF k > Len(seq)
    THEN [pc |-> "built", seq |-> seq, k |-> k,
          sentinel_none |-> sentinel_none, sentinel_n |-> sentinel_n,
          highest_place |-> U64(0), code |-> U64(0), n_in_window |-> 0,
          i |-> 0, out |-> [j \in 1..Len(seq) |-> sentinel_none],
          ovf |-> FALSE]
    ELSE LET hp == WrapPow(U64(1), 5, k - 1)
         IN  [pc |-> "first", seq |-> seq, k |-> k,
              sentinel_none |-> sentinel_none, sentinel_n |-> sentinel_n,
              highest_place |-> hp.v, code |-> U64(0), n_in_window |-> 0,
              i |-> 0, out |-> <<>>, ovf |-> hp.o]

\* One iteration of the first-window loop; the last one pushes the code.
bc_first(st) ==
    LET val == encode_base(st.seq[st.i + 1])
        n1 == IF val = 4 THEN st.n_in_window + 1 ELSE st.n_in_window
        m == WrapMul(st.code, 5)
        a == WrapAdd(m.v, val)
        last == st.i + 1 = st.k
    IN  [st EXCEPT !.code = a.v,
                   !.n_in_window = n1,
                   !.ovf = st.ovf \/ m.o \/ a.o,
                   !.i = st.i + 1,
                   !.out = IF last
                           THEN <<IF n1 > 0 THEN st.sentinel_n ELSE a.v>>
                           ELSE st.out,
                   !.pc = IF last THEN "slide" ELSE "first"]

\* The sliding loop without the decrement for an outgoing non-base
bc_slide_keep_n(st) ==
    LET val_left == encode_base(st.seq[st.i - st.k + 1])
        w == WrapMul(st.highest_place, val_left)
        s == WrapSub(st.code, w.v)
        m == WrapMul(s.v, 5)
        val_right == encode_base(st.seq[st.i + 1])
        n2 == IF val_right = 4 THEN st.n_in_window + 1 ELSE st.n_in_window
        a == WrapAdd(m.v, val_right)
    IN  [st EXCEPT !.code = a.v,
                   !.n_in_window = n2,
                   !.ovf = st.ovf \/ w.o \/ s.o \/ m.o \/ a.o,
                   !.i = st.i + 1,
                   !.out = Append(st.out,
                                  IF n2 > 0 THEN st.sentinel_n ELSE a.v)]

\* One iteration of the sliding loop.
bc_slide(st) ==
    LET val_left == encode_base(st.seq[st.i - st.k + 1])
        n1 == IF val_left = 4 THEN st.n_in_window - 1 ELSE st.n_in_window
        w == WrapMul(st.highest_place, val_left)
        s == WrapSub(st.code, w.v)
        m == WrapMul(s.v, 5)
        val_right == encode_base(st.seq[st.i + 1])
        n2 == IF val_right = 4 THEN n1 + 1 ELSE n1
        a == WrapAdd(m.v, val_right)
    IN  [st EXCEPT !.code = a.v,
                   !.n_in_window = n2,
                   !.ovf = st.ovf \/ n1 < 0 \/ w.o \/ s.o \/ m.o \/ a.o,
                   !.i = st.i + 1,
                   !.out = Append(st.out,
                                  IF n2 > 0 THEN st.sentinel_n ELSE a.v)]

\* Padding with k sentinel_none instead of k-1
bc_pad_k(st) ==
    [st EXCEPT !.out = st.out \o [j \in 1..st.k |-> st.sentinel_none],
               !.pc = "built"]

\* Pad the tail with k-1 sentinel_none.
bc_pad(st) ==
    [st EXCEPT !.out = st.out \o [j \in 1..(st.k - 1) |-> st.sentinel_none],
               !.pc = "built"]

bc_step(st) ==
    IF st.pc = "first" THEN bc_first(st)
    ELSE IF st.i < Len(st.seq) THEN bc_slide(st)
    ELSE bc_pad(st)

RECURSIVE bc_run(_)
bc_run(st) == IF st.pc = "built" THEN st ELSE bc_run(bc_step(st))

build_codes(seq, k, sentinel_none, sentinel_n) ==
    bc_run(bc_enter(seq, k, sentinel_none, sentinel_n)).out

\* Digit extraction that writes the least-significant digit leftmost
RECURSIVE decode_loop_lsb_first(_, _)
decode_loop_lsb_first(tmp, pos) ==
    IF pos = 0 THEN <<>>
    ELSE <<BASES[ModSmall(tmp, 5) + 1]>>
         \o decode_loop_lsb_first(DivSmall(tmp, 5), pos - 1)

RECURSIVE decode_loop(_, _)
decode_loop(tmp, pos) ==
    IF pos = 0 THEN <<>>
    ELSE decode_loop(DivSmall(tmp, 5), pos - 1)
         \o <<BASES[ModSmall(tmp, 5) + 1]>>

decode_kmer(code, k, sentinel_none, sentinel_n) ==
    IF code = sentinel_none \/ code = sentinel_n
    THEN [j \in 1..k |-> "N"]
    ELSE decode_loop(code, k)

(***************************************************************************)
(* Inputs of the codec: the bytes the lookup table tells apart, every      *)
(* short sequence over them, and longer two-run sequences for large k.     *)
(***************************************************************************)
Bytes == {"A", "C", "G", "T", "a", "c", "g", "t", "N", "X"}

RunBytes == {"A", "T", "N"}

RECURSIVE SeqsOfLen(_, _)
SeqsOfLen(S, n) ==
    IF n = 0 THEN {<<>>}
    ELSE {Append(s, b) : s \in SeqsOfLen(S, n - 1), b \in S}

FullSeqs == UNION {SeqsOfLen(Bytes, n) : n \in 0..MaxFullLen}

RunSeqs(k) ==
    {[j \in 1..n |-> IF j <= a THEN x ELSE y] :
        n \in (k - 1)..(k + Slack), a \in 0..(k + Slack),
        x \in RunBytes, y \in RunBytes}

CodecSeqs(k) ==
    IF k <= MaxFullLen + 1 THEN FullSeqs \cup RunSeqs(k) ELSE RunSeqs(k)

CodecIdle ==
    [pc |-> "off", k |-> 0, seq |-> <<>>, spec |-> <<>>, bc |-> <<>>,
     decoded |-> <<>>]

MergeIdle == [pc |-> "off"]

MaskIdle == [pc |-> "off"]

OverlapIdle == [pc |-> "off"]

ChromIdle == [pc |-> "off"]

UnitIdle == [pc |-> "off"]

\* The units of counting.rs, process_counts.rs, write.rs and run
\* The readers of the BED files; the path of a count from scan to matrix
last == <<parsing, pipeline>>

LastIdle == parsing = UnitIdle /\ pipeline = UnitIdle

later ==
    <<counting, folding, universe, writing, batch, widthsel, parsing,
      pipeline>>

LaterIdle ==
    /\ counting = UnitIdle
    /\ folding = UnitIdle
    /\ universe = UnitIdle
    /\ writing = UnitIdle
    /\ batch = UnitIdle
    /\ widthsel = UnitIdle
    /\ LastIdle

(***************************************************************************)
(* The codec as a process: choose the width of k, build the codes of a     *)
(* sequence one loop iteration at a time, decode every position.           *)
(***************************************************************************)
CodecInit ==
    /\ \E k \in 1..MaxK : \E seq \in CodecSeqs(k) :
         codec = [CodecIdle EXCEPT !.pc = "start", !.k = k, !.seq = seq]
    /\ merge = MergeIdle
    /\ mask = MaskIdle
    /\ overlap = OverlapIdle
    /\ chrom = ChromIdle
    /\ LaterIdle

CodecChooseWidth ==
    /\ codec.pc = "start"
    /\ codec' = [codec EXCEPT !.pc = "spec", !.spec = KmerSpec(codec.k)]
    /\ UNCHANGED <<merge, mask, overlap, chrom>>
    /\ UNCHANGED later

CodecBuildEnter ==
    /\ codec.pc = "spec"
    /\ codec' = [codec EXCEPT
                   !.pc = "build",
                   !.bc = bc_enter(codec.seq, codec.spec.k,
                                   codec.spec.sentinel_none,
                                   codec.spec.sentinel_n)]
    /\ UNCHANGED <<merge, mask, overlap, chrom>>
    /\ UNCHANGED later

CodecBuildStep ==
    /\ codec.pc = "build"
    /\ codec.bc.pc # "built"
    /\ codec' = [codec EXCEPT !.bc = bc_step(codec.bc)]
    /\ UNCHANGED <<merge, mask, overlap, chrom>>
    /\ UNCHANGED later

CodecDecode ==
    /\ codec.pc = "build"
    /\ codec.bc.pc = "built"
    /\ codec' = [codec EXCEPT
                   !.pc = "decoded",
                   !.decoded = [p \in 1..Len(codec.bc.out) |->
                                  decode_kmer(codec.bc.out[p], codec.spec.k,
                                              codec.spec.sentinel_none,
                                              codec.spec.sentinel_n)]]
    /\ UNCHANGED <<merge, mask, overlap, chrom>>
    /\ UNCHANGED later

CodecNext ==
    \/ CodecChooseWidth
    \/ CodecBuildEnter
    \/ CodecBuildStep
    \/ CodecDecode

SpecCodec == CodecInit /\ [][CodecNext]_vars

(***************************************************************************)
(* blacklist.rs                                                            *)
(***************************************************************************)
Min(a, b) == IF a <= b THEN a ELSE b

Max(a, b) == IF a >= b THEN a ELSE b

\* Tuple order of (u64, u64), as sort_unstable uses it
TupleLe(a, b) == a[1] < b[1] \/ (a[1] = b[1] /\ a[2] <= b[2])

RECURSIVE sort_insert(_, _)
sort_insert(sorted, x) ==
    IF sorted = <<>> THEN <<x>>
    ELSE IF TupleLe(x, Head(sorted)) THEN <<x>> \o sorted
    ELSE <<Head(sorted)>> \o sort_insert(Tail(sorted), x)

\* A sort that leaves the list as it is
sort_unstable_kept(ivs) == ivs

RECURSIVE sort_unstable(_)
sort_unstable(ivs) ==
    IF ivs = <<>> THEN <<>>
    ELSE sort_insert(sort_unstable(Tail(ivs)), Head(ivs))

\* The loop of merge_intervals with an extension that forgets the max
RECURSIVE merge_loop_no_max(_, _, _)
merge_loop_no_max(cur, rest, merged) ==
    IF rest = <<>> THEN Append(merged, cur)
    ELSE LET s == Head(rest)[1]
             e == Head(rest)[2]
         IN  IF s <= cur[2]
             THEN merge_loop_no_max(<<cur[1], e>>, Tail(rest), merged)
             ELSE merge_loop_no_max(<<s, e>>, Tail(rest), Append(merged, cur))

\* The loop of merge_intervals over ivs.skip(1)
RECURSIVE merge_loop(_, _, _)
merge_loop(cur, rest, merged) ==
    IF rest = <<>> THEN Append(merged, cur)
    ELSE LET s == Head(rest)[1]
             e == Head(rest)[2]
         IN  IF s <= cur[2]
             THEN merge_loop(<<cur[1], Max(cur[2], e)>>, Tail(rest), merged)
             ELSE merge_loop(<<s, e>>, Tail(rest), Append(merged, cur))

merge_intervals(ivs) ==
    IF ivs = <<>> THEN ivs ELSE merge_loop(Head(ivs), Tail(ivs), <<>>)

\* Byte used for blacklisted bases
BLACKLIST_BYTE == "X"

\* A fill that leaves the last byte of the range as it was
fill_short(seq, s, e) ==
    [j \in 1..Len(seq) |-> IF s < j /\ j < e THEN BLACKLIST_BYTE ELSE seq[j]]

\* seq[s..e].fill(BLACKLIST_BYTE), 0-based half-open
fill(seq, s, e) ==
    [j \in 1..Len(seq) |-> IF s < j /\ j <= e THEN BLACKLIST_BYTE ELSE seq[j]]

\* The mask loop that skips an interval overhanging the end, unclipped
RECURSIVE mask_loop_skip_overhang(_, _)
mask_loop_skip_overhang(seq, ivs) ==
    IF ivs = <<>> THEN [seq |-> seq, panicked |-> FALSE]
    ELSE LET s == Head(ivs)[1]
             e == Head(ivs)[2]
         IN  IF s >= Len(seq) \/ e > Len(seq)
             THEN [seq |-> seq, panicked |-> FALSE]
             ELSE IF s > e THEN [seq |-> seq, panicked |-> TRUE]
             ELSE mask_loop_skip_overhang(fill(seq, s, e), Tail(ivs))

\* The loop of apply_blacklist_mask_to_seq; slicing seq[s..e] with s > e
\* panics.
RECURSIVE mask_loop(_, _)
mask_loop(seq, ivs) ==
    IF ivs = <<>> THEN [seq |-> seq, panicked |-> FALSE]
    ELSE LET s == Head(ivs)[1]
             e == Min(Head(ivs)[2], Len(seq))
         IN  IF s >= Len(seq) THEN [seq |-> seq, panicked |-> FALSE]
             ELSE IF s > e THEN [seq |-> seq, panicked |-> TRUE]
             ELSE mask_loop(fill(seq, s, e), Tail(ivs))

apply_blacklist_mask_to_seq(seq, intervals) == mask_loop(seq, intervals)

\* A skip that also leaves behind the intervals starting at or before start
RECURSIVE skip_ended_eager(_, _, _)
skip_ended_eager(intervals, start, ptr) ==
    IF ptr < Len(intervals) /\ intervals[ptr + 1][1] <= start
    THEN skip_ended_eager(intervals, start, ptr + 1)
    ELSE ptr

\* Step 1 of the pointer queries: skip intervals ending at or before start
RECURSIVE skip_ended(_, _, _)
skip_ended(intervals, start, ptr) ==
    IF ptr < Len(intervals) /\ intervals[ptr + 1][2] <= start
    THEN skip_ended(intervals, start, ptr + 1)
    ELSE ptr

\* is_full that looks at the interval's start only
is_full_start_only(intervals, start, end, ptr) ==
    LET p == skip_ended(intervals, start, ptr)
    IN  [ptr |-> p,
         full |-> IF p < Len(intervals)
                  THEN intervals[p + 1][1] <= start
                  ELSE FALSE]

\* is_full: skip the intervals ending at or before start, then test the
\* interval at the pointer, if there is one
is_full(intervals, start, end, ptr) ==
    LET p == skip_ended(intervals, start, ptr)
    IN  [ptr |-> p,
         full |-> IF p < Len(intervals)
                  THEN intervals[p + 1][1] <= start
                       /\ intervals[p + 1][2] >= end
                  ELSE FALSE]

\* a.saturating_sub(b)
saturating_sub(a, b) == IF a >= b THEN a - b ELSE 0

\* The summing loop that takes each overlap from the interval's own start
RECURSIVE sum_overlap_unclipped(_, _, _, _)
sum_overlap_unclipped(intervals, start, end, i) ==
    IF i < Len(intervals) /\ intervals[i + 1][1] < end
    THEN saturating_sub(Min(intervals[i + 1][2], end), intervals[i + 1][1])
         + sum_overlap_unclipped(intervals, start, end, i + 1)
    ELSE 0

\* Step 2: sum the overlap lengths of the intervals that start before end
RECURSIVE sum_overlap(_, _, _, _)
sum_overlap(intervals, start, end, i) ==
    IF i < Len(intervals) /\ intervals[i + 1][1] < end
    THEN saturating_sub(Min(intervals[i + 1][2], end),
                        Max(intervals[i + 1][1], start))
         + sum_overlap(intervals, start, end, i + 1)
    ELSE 0

\* The f64 result is kept as the fraction covered / len; end - start
\* underflows when end < start.
compute_blacklist_overlap(intervals, start, end, ptr) ==
    LET p == skip_ended(intervals, start, ptr)
    IN  [ptr |-> p,
         covered |-> sum_overlap(intervals, start, end, p),
         len |-> end - start,
         underflow |-> end < start]

(***************************************************************************)
(* Inputs of the interval algebra.                                         *)
(***************************************************************************)
RECURSIVE ListsUpTo(_, _)
ListsUpTo(S, n) ==
    IF n = 0 THEN {<<>>}
    ELSE LET shorter == ListsUpTo(S, n - 1)
         IN  shorter \cup {Append(l, x) : l \in shorter, x \in S}

\* Any pair of coordinates, start <= end or not
Pairs(maxc) == (0..maxc) \X (0..maxc)

\* Well-formed half-open intervals
Intervals(maxc) == {iv \in Pairs(maxc) : iv[1] < iv[2]}

SortedByStart(ivs) ==
    \A j \in 1..(Len(ivs) - 1) : ivs[j][1] <= ivs[j + 1][1]

\* Sorted by start and pairwise disjoint (touching allowed)
SortedDisjoint(ivs) ==
    \A j \in 1..(Len(ivs) - 1) : ivs[j][2] <= ivs[j + 1][1]

(***************************************************************************)
(* merge_intervals, called on a list as it is, or by load_blacklists after *)
(* its sort.                                                               *)
(***************************************************************************)
MergeInit ==
    /\ \E ivs \in ListsUpTo(Pairs(MaxMergeCoord), MaxMergeIvs) :
         merge = [pc |-> "input", op |-> "none", ivs |-> ivs, out |-> <<>>]
    /\ codec = CodecIdle
    /\ mask = MaskIdle
    /\ overlap = OverlapIdle
    /\ chrom = ChromIdle
    /\ LaterIdle

MergeIntervals ==
    /\ merge.pc = "input"
    /\ merge' = [merge EXCEPT !.pc = "done", !.op = "merge_intervals",
                              !.out = merge_intervals(merge.ivs)]
    /\ UNCHANGED <<codec, mask, overlap, chrom>>
    /\ UNCHANGED later

LoadBlacklists ==
    /\ merge.pc = "input"
    /\ \A j \in 1..Len(merge.ivs) : merge.ivs[j][1] < merge.ivs[j][2]
    /\ merge' = [merge EXCEPT !.pc = "done", !.op = "load_blacklists",
                   !.out = merge_intervals(sort_unstable(merge.ivs))]
    /\ UNCHANGED <<codec, mask, overlap, chrom>>
    /\ UNCHANGED later

MergeNext == MergeIntervals \/ LoadBlacklists

SpecMerge == MergeInit /\ [][MergeNext]_vars

(***************************************************************************)
(* apply_blacklist_mask_to_seq on any sequence and interval list.          *)
(***************************************************************************)
MaskSeqs == UNION {SeqsOfLen({"A", BLACKLIST_BYTE}, n) : n \in 0..MaxMaskLen}

MaskInit ==
    /\ \E seq \in MaskSeqs :
       \E ivs \in ListsUpTo(Pairs(MaxMaskLen + 1), MaxMaskIvs) :
         mask = [pc |-> "input", seq |-> seq, ivs |-> ivs, out |-> <<>>,
                 panicked |-> FALSE]
    /\ codec = CodecIdle
    /\ merge = MergeIdle
    /\ overlap = OverlapIdle
    /\ chrom = ChromIdle
    /\ LaterIdle

MaskApply ==
    /\ mask.pc = "input"
    /\ LET r == apply_blacklist_mask_to_seq(mask.seq, mask.ivs)
       IN  mask' = [mask EXCEPT !.pc = "done", !.out = r.seq,
                                !.panicked = r.panicked]
    /\ UNCHANGED <<codec, merge, overlap, chrom>>
    /\ UNCHANGED later

MaskNext == MaskApply

SpecMask == MaskInit /\ [][MaskNext]_vars

(***************************************************************************)
(* compute_blacklist_overlap: queries that share one pointer.              *)
(***************************************************************************)
OverlapInit ==
    /\ \E ivs \in {l \in ListsUpTo(Intervals(MaxOvCoord), MaxOvIvs) :
                     SortedDisjoint(l)} :
         overlap = [pc |-> "ready", ivs |-> ivs, ptr |-> 0, nq |-> 0,
                    start |-> 0, end |-> 0, covered |-> 0, len |-> 0,
                    prev_ptr |-> 0, ascending |-> TRUE]
    /\ codec = CodecIdle
    /\ merge = MergeIdle
    /\ mask = MaskIdle
    /\ chrom = ChromIdle
    /\ LaterIdle

OverlapQuery ==
    /\ overlap.pc = "ready"
    /\ overlap.nq < MaxQueries
    /\ \E q \in Intervals(MaxOvCoord) :
         LET r == compute_blacklist_overlap(overlap.ivs, q[1], q[2],
                                            overlap.ptr)
         IN  overlap' = [overlap EXCEPT
                 !.ptr = r.ptr, !.nq = overlap.nq + 1,
                 !.start = q[1], !.end = q[2],
                 !.covered = r.covered, !.len = r.len,
                 !.prev_ptr = overlap.ptr,
                 !.ascending = overlap.ascending
                               /\ (overlap.nq = 0 \/ overlap.start <= q[1])]
    /\ UNCHANGED <<codec, merge, mask, chrom>>
    /\ UNCHANGED later

OverlapNext == OverlapQuery

SpecOverlap == OverlapInit /\ [][OverlapNext]_vars

(***************************************************************************)
(* kmer_codec.rs: width-tagged storage.  bin/reference.rs: process_chrom.  *)
(***************************************************************************)
\* A down-cast that stores 16-bit codes through a byte
pack_byte(w, c) ==
    CASE w = "U8"  -> c[1] % 256
      [] w = "U16" -> c[1] % 256
      [] w = "U32" -> <<c[1], c[2]>>
      [] w = "U64" -> c

\* The down-cast of build_codes_per_k: c as u8 / u16 / u32, or c itself
pack(w, c) ==
    CASE w = "U8"  -> c[1] % 256
      [] w = "U16" -> c[1]
      [] w = "U32" -> <<c[1], c[2]>>
      [] w = "U64" -> c

\* build_kmer_specs for a list of distinct sizes in 1..27
build_kmer_specs(ks) == [k \in ks |-> KmerSpec(k)]

build_codes_per_k(seq, specs) ==
    [k \in DOMAIN specs |->
        LET spec == specs[k]
            raw == build_codes(seq, spec.k, spec.sentinel_none,
                               spec.sentinel_n)
        IN  [width |-> spec.width,
             v |-> [j \in 1..Len(raw) |-> pack(spec.width, raw[j])]]]

\* KmerCodes::get: the code at 0-based idx, widened to u64
KmerCodes_get(codes, idx) ==
    CASE codes.width = "U8"  -> U64(codes.v[idx + 1])
      [] codes.width = "U16" -> U64(codes.v[idx + 1])
      [] codes.width = "U32" -> codes.v[idx + 1] \o <<0, 0>>
      [] codes.width = "U64" -> codes.v[idx + 1]

\* Enc { k, codes, none, n }
Enc(k, specs, codes_by_k) ==
    [k |-> k, codes |-> codes_by_k[k],
     none |-> specs[k].sentinel_none, n |-> specs[k].sentinel_n]

\* *counts.entry(key).or_insert(0) += 1
count_entry(counts, key) ==
    IF key \in DOMAIN counts
    THEN [counts EXCEPT ![key] = @ + 1]
    ELSE [x \in DOMAIN counts \cup {key} |->
            IF x = key THEN 1 ELSE counts[x]]

\* The inner loop that skips sentinel_none only
RECURSIVE scan_encs_counts_n(_, _, _, _)
scan_encs_counts_n(counts, encs, j, ref_pos) ==
    IF j > Len(encs) THEN counts
    ELSE LET enc == encs[j]
             code == KmerCodes_get(enc.codes, ref_pos)
         IN  IF code = enc.none
             THEN scan_encs_counts_n(counts, encs, j + 1, ref_pos)
             ELSE scan_encs_counts_n(count_entry(counts, <<enc.k, code>>),
                                     encs, j + 1, ref_pos)

\* The inner loop over encs at one ref_pos, from the j-th enc on
RECURSIVE scan_encs(_, _, _, _)
scan_encs(counts, encs, j, ref_pos) ==
    IF j > Len(encs) THEN counts
    ELSE LET enc == encs[j]
             code == KmerCodes_get(enc.codes, ref_pos)
         IN  IF code = enc.none \/ code = enc.n
             THEN scan_encs(counts, encs, j + 1, ref_pos)
             ELSE scan_encs(count_entry(counts, <<enc.k, code>>),
                            encs, j + 1, ref_pos)

\* for ref_pos in win_start..win_end
RECURSIVE scan_range(_, _, _, _)
scan_range(counts, encs, ref_pos, win_end) ==
    IF ref_pos >= win_end THEN counts
    ELSE scan_range(scan_encs(counts, encs, 1, ref_pos), encs,
                    ref_pos + 1, win_end)

EmptyMap == [x \in {} |-> 0]

\* The window scan of process_chrom: one count map per window
scan_windows(windows, encs, chrom_len) ==
    [w \in 1..Len(windows) |->
        scan_range(EmptyMap, encs, windows[w][1],
                   Min(windows[w][2], chrom_len))]

\* bin_info: the windows, clipped, with the overlap of each; the queries
\* share bl_ptr.
RECURSIVE bin_info_loop(_, _, _, _, _)
bin_info_loop(windows, w, blacklist, chrom_len, bl_ptr) ==
    IF w > Len(windows) THEN <<>>
    ELSE LET win_start == windows[w][1]
             win_end == Min(windows[w][2], chrom_len)
             r == compute_blacklist_overlap(blacklist, win_start, win_end,
                                            bl_ptr)
         IN  <<[start |-> win_start, end |-> win_end,
                original_win_idx |-> windows[w][3],
                covered |-> r.covered, len |-> r.len,
                underflow |-> r.underflow]>>
             \o bin_info_loop(windows, w + 1, blacklist, chrom_len, r.ptr)

\* by-size: ceil(chrom_len / sz) windows of sz positions
by_size_windows(chrom_len, sz) ==
    LET num_windows == (chrom_len + sz - 1) \div sz
    IN  [j \in 1..num_windows |-> <<(j - 1) * sz, sz + (j - 1) * sz, j - 1>>]

global_windows(chrom_len) == <<<<0, chrom_len, 0>>>>

(***************************************************************************)
(* Inputs of a chromosome unit.                                            *)
(***************************************************************************)
ChromBytes == {"A", "C", "N"}

ChromSeqs == UNION {SeqsOfLen(ChromBytes, n) : n \in 0..MaxChromLen}

\* What load_blacklists returns for one chromosome: sorted and merged
Blacklists ==
    {merge_intervals(sort_unstable(l)) :
        l \in ListsUpTo(Intervals(MaxChromLen + 1), 2)}

KSets == {{k} : k \in 1..MaxChromK} \cup {{1, 2}}

\* The orders in which a map of the k-mer specs may be iterated
Orders(ks) ==
    {o \in UNION {[1..Cardinality(ks) -> ks]} :
        \A i, j \in 1..Cardinality(ks) : i # j => o[i] # o[j]}

\* What load_windows returns for one chromosome: (start, end, original
\* index) sorted by (start, end), the indices in the order of the file
load_windows_lists ==
    UNION {
      {[j \in 1..n |-> <<l[j][1], l[j][2], j - 1>>] :
          l \in {x \in [1..n -> {w \in Pairs(MaxChromLen + 1) :
                                      w[1] <= w[2]}] :
                     \A j \in 1..(n - 1) : TupleLe(x[j], x[j + 1])}}
      : n \in 0..MaxWindows}

(***************************************************************************)
(* One chromosome unit (process_chrom).                                    *)
(***************************************************************************)
ChromInit ==
    /\ chrom = [pc |-> "Idle", seq |-> <<>>, chrom_len |-> 0,
                blacklist |-> <<>>, kmer_specs |-> <<>>, codes |-> <<>>,
                mode |-> "none", windows |-> <<>>, counts |-> <<>>,
                bin_info |-> <<>>]
    /\ codec = CodecIdle
    /\ merge = MergeIdle
    /\ mask = MaskIdle
    /\ overlap = OverlapIdle
    /\ LaterIdle

\* read_seq succeeded
ChromReadSeq ==
    /\ chrom.pc = "Idle"
    /\ \E seq \in ChromSeqs :
         chrom' = [chrom EXCEPT !.pc = "SequenceLoaded", !.seq = seq]
    /\ UNCHANGED <<codec, merge, mask, overlap>>
    /\ UNCHANGED later

\* read_seq returned an error: the unit fails
ChromReadFail ==
    /\ chrom.pc = "Idle"
    /\ chrom' = [chrom EXCEPT !.pc = "Failed"]
    /\ UNCHANGED <<codec, merge, mask, overlap>>
    /\ UNCHANGED later

ChromMask ==
    /\ chrom.pc = "SequenceLoaded"
    /\ \E bl \in Blacklists :
         chrom' = [chrom EXCEPT
             !.pc = "Masked",
             !.blacklist = bl,
             !.seq = apply_blacklist_mask_to_seq(chrom.seq, bl).seq,
             !.chrom_len = Len(chrom.seq)]
    /\ UNCHANGED <<codec, merge, mask, overlap>>
    /\ UNCHANGED later

\* build_codes_per_k, then drop(seq_bytes)
ChromBuildCodes ==
    /\ chrom.pc = "Masked"
    /\ \E ks \in KSets :
         LET specs == build_kmer_specs(ks)
         IN  chrom' = [chrom EXCEPT
                 !.pc = "CodesBuilt",
                 !.kmer_specs = specs,
                 !.codes = build_codes_per_k(chrom.seq, specs),
                 !.seq = <<>>]
    /\ UNCHANGED <<codec, merge, mask, overlap>>
    /\ UNCHANGED later

\* The rest of process_chrom for the given windows
ChromFinish(mode, windows) ==
    \E order \in Orders(DOMAIN chrom.kmer_specs) :
        LET encs == [j \in 1..Len(order) |->
                       Enc(order[j], chrom.kmer_specs, chrom.codes)]
        IN  chrom' = [chrom EXCEPT
                !.pc = "Done",
                !.mode = mode,
                !.windows = windows,
                !.counts = scan_windows(windows, encs, chrom.chrom_len),
                !.bin_info = bin_info_loop(windows, 1, chrom.blacklist,
                                           chrom.chrom_len, 0)]

ChromBySize ==
    /\ chrom.pc = "CodesBuilt"
    /\ \E sz \in 1..(MaxChromLen + 1) :
         ChromFinish("by_size", by_size_windows(chrom.chrom_len, sz))
    /\ UNCHANGED <<codec, merge, mask, overlap>>
    /\ UNCHANGED later

ChromByBed ==
    /\ chrom.pc = "CodesBuilt"
    /\ \E windows \in load_windows_lists : ChromFinish("by_bed", windows)
    /\ UNCHANGED <<codec, merge, mask, overlap>>
    /\ UNCHANGED later

ChromGlobal ==
    /\ chrom.pc = "CodesBuilt"
    /\ ChromFinish("global", global_windows(chrom.chrom_len))
    /\ UNCHANGED <<codec, merge, mask, overlap>>
    /\ UNCHANGED later

ChromNext ==
    \/ ChromReadSeq
    \/ ChromReadFail
    \/ ChromMask
    \/ ChromBuildCodes
    \/ ChromBySize
    \/ ChromByBed
    \/ ChromGlobal

Spec == ChromInit /\ [][ChromNext]_vars

(***************************************************************************)
(* Properties of the codec.                                                *)
(***************************************************************************)
IsUpperBase(b) == b \in {"A", "C", "G", "T"}

IsBase(b) == b \in {"A", "a", "C", "c", "G", "g", "T", "t"}

Digit(b) ==
    CASE b \in {"A", "a"} -> 0
      [] b \in {"C", "c"} -> 1
      [] b \in {"G", "g"} -> 2
      [] b \in {"T", "t"} -> 3

\* The positions (1-based) of seq at which a full window of k bytes starts
FullPositions(seq, k) == {p \in 1..Len(seq) : p + k - 1 <= Len(seq)}

Window(seq, p, k) == SubSeq(seq, p, p + k - 1)

AllUpper(w) == \A j \in 1..Len(w) : IsUpperBase(w[j])

AllBases(w) == \A j \in 1..Len(w) : IsBase(w[j])

NonBases(seq, lo, hi) == Cardinality({j \in lo..hi : ~IsBase(seq[j])})

\* The k radix-5 digits of x, most significant first, and what is left above
RECURSIVE Radix5Digits(_, _)
Radix5Digits(x, k) ==
    IF k = 0 THEN <<>>
    ELSE Radix5Digits(DivSmall(x, 5), k - 1) \o <<ModSmall(x, 5)>>

RECURSIVE Radix5Rest(_, _)
Radix5Rest(x, k) == IF k = 0 THEN x ELSE Radix5Rest(DivSmall(x, 5), k - 1)

\* x = sum over j of d[j] * 5^(k-j)
IsRadix5Value(x, d) ==
    /\ Radix5Digits(x, Len(d)) = d
    /\ Radix5Rest(x, Len(d)) = U64(0)

CodecBuilt == codec.pc = "build" /\ codec.bc.pc = "built"

\* C1: decoding the code built at a position whose k bytes are all
\* uppercase A/C/G/T and lie inside the sequence gives back those k bytes.
C1_RoundTrip ==
    codec.pc = "decoded" =>
        \A p \in FullPositions(codec.seq, codec.k) :
            AllUpper(Window(codec.seq, p, codec.k)) =>
                codec.decoded[p] = Window(codec.seq, p, codec.k)

C1_Witness ==
    /\ codec.pc = "decoded"
    /\ codec.k = MaxK
    /\ \E p \in FullPositions(codec.seq, codec.k) :
         /\ p > 1
         /\ AllUpper(Window(codec.seq, p, codec.k))
         /\ codec.seq[p] = "A"
         /\ codec.seq[p + codec.k - 1] = "T"

\* The base-5 digits of 2^W - 2 are more than k exactly when
\* 5^k - 1 <= (2^W - 1) - 2.
RECURSIVE Radix5Len(_)
Radix5Len(x) ==
    IF x = [j \in 1..Len(x) |-> 0] THEN 0 ELSE 1 + Radix5Len(DivSmall(x, 5))

WidthHolds(w, k) ==
    LET top == CASE w = "U8"  -> <<254, 0, 0, 0>>
                 [] w = "U16" -> <<65534, 0, 0, 0>>
                 [] w = "U32" -> <<65534, 65535, 0, 0>>
                 [] w = "U64" -> <<65534, 65535, 65535, 65535>>
    IN  Radix5Len(top) > k

\* C4: choose_width(k) is the narrowest of the four widths with
\* 5^k - 1 <= max - 2, with the top two values of the width as sentinels;
\* k = 3 is 8-bit, k = 10 is 32-bit, k = 26 is 64-bit.
C4_ChooseWidth ==
    codec.pc = "spec" =>
        LET sp == codec.spec
            idx == CHOOSE j \in 1..4 : Widths[j] = sp.width
        IN  /\ sp.width \in {"U8", "U16", "U32", "U64"}
            /\ WidthHolds(sp.width, codec.k)
            /\ \A j \in 1..(idx - 1) : ~WidthHolds(Widths[j], codec.k)
            /\ sp.width = "U8" =>
                 sp.sentinel_none = <<255, 0, 0, 0>>
                 /\ sp.sentinel_n = <<254, 0, 0, 0>>
            /\ sp.width = "U16" =>
                 sp.sentinel_none = <<65535, 0, 0, 0>>
                 /\ sp.sentinel_n = <<65534, 0, 0, 0>>
            /\ sp.width = "U32" =>
                 sp.sentinel_none = <<65535, 65535, 0, 0>>
                 /\ sp.sentinel_n = <<65534, 65535, 0, 0>>
            /\ sp.width = "U64" =>
                 sp.sentinel_none = <<65535, 65535, 65535, 65535>>
                 /\ sp.sentinel_n = <<65534, 65535, 65535, 65535>>
            /\ codec.k = 3 => sp.width = "U8"
            /\ codec.k = 10 => sp.width = "U32"
            /\ codec.k = 26 => sp.width = "U64"

C4_Witness == codec.pc = "spec" /\ codec.k = 26 /\ codec.spec.width = "U64"

\* C5: build_codes returns len(seq) codes; all are sentinel_none when
\* k > len(seq); otherwise exactly the last k-1 are sentinel_none.
C5_TailNone ==
    CodecBuilt =>
        LET n == Len(codec.seq)
            out == codec.bc.out
            none == codec.spec.sentinel_none
        IN  /\ Len(out) = n
            /\ codec.k > n => \A p \in 1..n : out[p] = none
            /\ codec.k <= n =>
                 \A p \in 1..n : (out[p] = none) <=> (p > n - (codec.k - 1))

C5_Witness ==
    /\ CodecBuilt
    /\ codec.k = 3
    /\ Len(codec.seq) = 5
    /\ codec.bc.out[3] # codec.spec.sentinel_none
    /\ codec.bc.out[4] = codec.spec.sentinel_none

\* C6: a full window's code is sentinel_n exactly when one of its bytes is
\* not a base, and otherwise the radix-5 value of its digits; the running
\* counter equals the number of non-base bytes of the current window and no
\* operation of the loops wraps.
C6_RollingEqualsDirect ==
    codec.pc = "build" =>
        LET st == codec.bc
            seq == codec.seq
            k == codec.k
        IN  /\ ~st.ovf
            /\ st.pc = "first" => st.n_in_window = NonBases(seq, 1, st.i)
            /\ st.pc = "slide" =>
                 st.n_in_window = NonBases(seq, st.i - k + 1, st.i)
            /\ st.pc = "built" =>
                 \A p \in FullPositions(seq, k) :
                    LET w == Window(seq, p, k)
                    IN  /\ (st.out[p] = st.sentinel_n) <=> ~AllBases(w)
                        /\ AllBases(w) =>
                             IsRadix5Value(st.out[p],
                                           [j \in 1..k |-> Digit(w[j])])

C6_Witness ==
    /\ codec.pc = "build"
    /\ codec.bc.pc = "slide"
    /\ codec.k = MaxK
    /\ codec.bc.i = codec.k + 2
    /\ codec.seq[1] = "N"
    /\ codec.bc.n_in_window = 0
    /\ codec.bc.out[2] = codec.bc.sentinel_n
    /\ codec.bc.out[3] # codec.bc.sentinel_n

(***************************************************************************)
(* Properties of the interval algebra.                                     *)
(***************************************************************************)
\* The positions covered by a list of half-open intervals
CoveredBy(ivs) == UNION {ivs[j][1]..(ivs[j][2] - 1) : j \in 1..Len(ivs)}

\* Each start strictly greater than the previous end
NonTouching(ivs) ==
    \A j \in 1..(Len(ivs) - 1) : ivs[j + 1][1] > ivs[j][2]

\* C7: on a list sorted by start, merge_intervals returns a sorted,
\* non-touching list covering the same positions; touching intervals are
\* coalesced, a non-touching list comes back unchanged, empty gives empty.
C7_MergeSorted ==
    (merge.pc = "done" /\ merge.op = "merge_intervals"
     /\ SortedByStart(merge.ivs)) =>
        /\ SortedByStart(merge.out)
        /\ NonTouching(merge.out)
        /\ CoveredBy(merge.out) = CoveredBy(merge.ivs)
        /\ NonTouching(merge.ivs) => merge.out = merge.ivs
        /\ merge.ivs = <<>> => merge.out = <<>>
        /\ merge.ivs = <<<<0, 1>>, <<1, 2>>, <<2, 3>>>> =>
             merge.out = <<<<0, 3>>>>

C7_Witness ==
    /\ merge.pc = "done"
    /\ merge.op = "merge_intervals"
    /\ merge.ivs = <<<<0, 2>>, <<1, 2>>, <<2, 3>>>>
    /\ merge.out = <<<<0, 3>>>>

\* Position i (0-based) lies in an interval of the list, clipped to n
InClipped(ivs, i, n) ==
    \E j \in 1..Len(ivs) : ivs[j][1] <= i /\ i < Min(ivs[j][2], n)

\* What the mask promises: no error, same length, the mask byte inside the
\* clipped intervals and the old byte everywhere else.
MaskedAsPromised ==
    /\ ~mask.panicked
    /\ Len(mask.out) = Len(mask.seq)
    /\ \A i \in 0..(Len(mask.seq) - 1) :
         IF InClipped(mask.ivs, i, Len(mask.seq))
         THEN mask.out[i + 1] = BLACKLIST_BYTE
         ELSE mask.out[i + 1] = mask.seq[i + 1]

WellFormed(ivs) == \A j \in 1..Len(ivs) : ivs[j][1] <= ivs[j][2]

NonEmpty(ivs) == \A j \in 1..Len(ivs) : ivs[j][1] < ivs[j][2]

\* C8 as stated: the promise holds for any sequence and any list of
\* intervals, here even with every interval non-empty (start < end), in
\* whatever order the list gives them.
C8_MaskAnyList ==
    (mask.pc = "done" /\ NonEmpty(mask.ivs)) => MaskedAsPromised

\* C8 amended: the promise holds for any interval list that is sorted by
\* start and whose intervals have start <= end.
C8_MaskSortedList ==
    (mask.pc = "done" /\ WellFormed(mask.ivs) /\ SortedByStart(mask.ivs)) =>
        MaskedAsPromised

C8_Witness ==
    /\ mask.pc = "done"
    /\ mask.seq = <<"A", "A", "A">>
    /\ mask.ivs = <<<<1, 4>>, <<3, 4>>>>
    /\ mask.out = <<"A", "X", "X">>

\* The positions of [start, end) inside the union of the intervals
TrulyCovered(ivs, start, end) ==
    Cardinality((start..(end - 1)) \cap CoveredBy(ivs))

\* C9: with sorted disjoint intervals and queries in non-decreasing start
\* order on one pointer, each query reports covered / (end - start) with
\* covered the exact number of covered positions: 1.0 inside an interval,
\* 0.0 when disjoint from all.
C9_OverlapExact ==
    (overlap.pc = "ready" /\ overlap.nq > 0 /\ overlap.ascending) =>
        /\ overlap.covered
             = TrulyCovered(overlap.ivs, overlap.start, overlap.end)
        /\ overlap.len = overlap.end - overlap.start
        /\ (\E j \in 1..Len(overlap.ivs) :
              overlap.ivs[j][1] <= overlap.start
              /\ overlap.end <= overlap.ivs[j][2])
             => overlap.covered = overlap.len
        /\ (\A j \in 1..Len(overlap.ivs) :
              overlap.ivs[j][2] <= overlap.start
              \/ overlap.end <= overlap.ivs[j][1])
             => overlap.covered = 0

C9_Witness ==
    /\ overlap.pc = "ready"
    /\ overlap.nq = 2
    /\ overlap.ascending
    /\ Len(overlap.ivs) = 2
    /\ overlap.ptr = 1
    /\ overlap.prev_ptr = 0
    /\ overlap.start > overlap.ivs[2][1]
    /\ overlap.end > overlap.ivs[2][2]
    /\ overlap.covered > 0

(***************************************************************************)
(* Properties of the chromosome unit.                                      *)
(***************************************************************************)
CountOf(m, key) == IF key \in DOMAIN m THEN m[key] ELSE 0

\* The positions window w scans: [start, min(end, chrom_len))
ScanRange(w) ==
    chrom.windows[w][1]..(Min(chrom.windows[w][2], chrom.chrom_len) - 1)

CodeAt(k, p) == KmerCodes_get(chrom.codes[k], p)

IsSentinel(k, c) ==
    c = chrom.kmer_specs[k].sentinel_none \/ c = chrom.kmer_specs[k].sentinel_n

\* C2: for every window and every k, the count of a code is the number of
\* positions of the clipped range with that code, for every non-sentinel
\* code; sentinel positions add nothing and no key is a sentinel.
C2_WindowScan ==
    chrom.pc = "Done" =>
        /\ Len(chrom.counts) = Len(chrom.windows)
        /\ \A w \in 1..Len(chrom.windows) :
             LET m == chrom.counts[w]
             IN  /\ \A key \in DOMAIN m :
                      /\ key[1] \in DOMAIN chrom.kmer_specs
                      /\ ~IsSentinel(key[1], key[2])
                      /\ m[key] = Cardinality({q \in ScanRange(w) :
                                      CodeAt(key[1], q) = key[2]})
                 /\ \A k \in DOMAIN chrom.kmer_specs :
                    \A p \in ScanRange(w) :
                      ~IsSentinel(k, CodeAt(k, p)) =>
                          CountOf(m, <<k, CodeAt(k, p)>>)
                            = Cardinality({q \in ScanRange(w) :
                                             CodeAt(k, q) = CodeAt(k, p)})

C2_Witness ==
    /\ chrom.pc = "Done"
    /\ DOMAIN chrom.kmer_specs = {1, 2}
    /\ Len(chrom.windows) = 2
    /\ chrom.chrom_len = 3
    /\ chrom.windows[2][2] > chrom.chrom_len
    /\ CountOf(chrom.counts[1], <<1, U64(0)>>) = 2
    /\ CountOf(chrom.counts[1], <<2, U64(0)>>) = 1
    /\ CodeAt(2, 1) = chrom.kmer_specs[2].sentinel_n
    /\ CodeAt(2, 2) = chrom.kmer_specs[2].sentinel_none

\* Position x lies in a blacklist interval, clipped to the chromosome
Blacklisted(x) == InClipped(chrom.blacklist, x, chrom.chrom_len)

OverlapsBlacklist(p, k) == \E x \in p..(p + k - 1) : Blacklisted(x)

\* C3: after masking with the sorted merged blacklist and building the
\* codes, every full window that overlaps a blacklisted base has code
\* sentinel_n, for every k, and no count of any window comes from a
\* position whose k-mer overlaps a blacklisted base.
C3_BlacklistExcluded ==
    chrom.pc = "Done" =>
        /\ \A k \in DOMAIN chrom.kmer_specs :
           \A p \in 0..(chrom.chrom_len - 1) :
             (p + k <= chrom.chrom_len /\ OverlapsBlacklist(p, k)) =>
                 CodeAt(k, p) = chrom.kmer_specs[k].sentinel_n
        /\ \A w \in 1..Len(chrom.windows) :
           \A key \in DOMAIN chrom.counts[w] :
             chrom.counts[w][key]
               = Cardinality({q \in ScanRange(w) :
                                /\ CodeAt(key[1], q) = key[2]
                                /\ ~OverlapsBlacklist(q, key[1])})

C3_Witness ==
    /\ chrom.pc = "Done"
    /\ Len(chrom.blacklist) = 2
    /\ chrom.blacklist[2][2] > chrom.chrom_len
    /\ chrom.blacklist[2][1] < chrom.chrom_len
    /\ DOMAIN chrom.kmer_specs = {1, 2}
    /\ chrom.mode = "global"
    /\ CountOf(chrom.counts[1], <<1, U64(1)>>) = 1
    /\ \A p \in 0..1 : CodeAt(2, p) = chrom.kmer_specs[2].sentinel_n

\* C10 as stated: a window (clipped to the chromosome) shorter than k, or
\* a chromosome shorter than k, leaves the window's map without any entry
\* for that k.
C10_ShortWindowEmpty ==
    chrom.pc = "Done" =>
        \A w \in 1..Len(chrom.windows) :
        \A k \in DOMAIN chrom.kmer_specs :
            (Min(chrom.windows[w][2], chrom.chrom_len) - chrom.windows[w][1] < k
             \/ chrom.chrom_len < k) =>
                \A key \in DOMAIN chrom.counts[w] : key[1] # k

(***************************************************************************)
(* counting.rs: count_kmers_by_window, one window per step.                *)
(***************************************************************************)
\* The inner loop without the check of the bases left in the window
RECURSIVE count_encs_any_remaining(_, _, _, _, _)
count_encs_any_remaining(counts, encs, j, ref_pos, remaining) ==
    IF j > Len(encs) THEN counts
    ELSE LET enc == encs[j]
             code == KmerCodes_get(enc.codes, ref_pos)
         IN  IF code = enc.none \/ code = enc.n
             THEN count_encs_any_remaining(counts, encs, j + 1, ref_pos,
                                           remaining)
             ELSE count_encs_any_remaining(
                      count_entry(counts, <<enc.k, code>>),
                      encs, j + 1, ref_pos, remaining)

\* for enc in encs, at one ref_pos with `remaining` bases left
RECURSIVE count_encs(_, _, _, _, _)
count_encs(counts, encs, j, ref_pos, remaining) ==
    IF j > Len(encs) THEN counts
    ELSE LET enc == encs[j]
         IN  IF remaining < enc.k
             THEN count_encs(counts, encs, j + 1, ref_pos, remaining)
             ELSE LET code == KmerCodes_get(enc.codes, ref_pos)
                  IN  IF code = enc.none \/ code = enc.n
                      THEN count_encs(counts, encs, j + 1, ref_pos,
                                      remaining)
                      ELSE count_encs(count_entry(counts, <<enc.k, code>>),
                                      encs, j + 1, ref_pos, remaining)

\* for ref_pos in win_start..win_end
RECURSIVE count_range(_, _, _, _)
count_range(counts, encs, ref_pos, win_end) ==
    IF ref_pos >= win_end THEN counts
    ELSE count_range(count_encs(counts, encs, 1, ref_pos,
                                win_end - ref_pos),
                     encs, ref_pos + 1, win_end)

CountBytes == {"A", "C", "N"}

CountSeqs == UNION {SeqsOfLen(CountBytes, n) : n \in 0..MaxCountLen}

CountKSets == {{k} : k \in 1..MaxCountK} \cup {{1, 2}}

\* Windows in any order: start <= end inside the longest sequence, one
\* that ends past it, and one with its end before its start
CountWindow ==
    {w \in Pairs(MaxCountLen) : w[1] <= w[2]}
        \cup {<<0, MaxCountLen + 1>>, <<1, 0>>}

CountWindows ==
    UNION {[1..n -> {<<w[1], w[2], 0>> : w \in CountWindow}] :
              n \in 0..MaxCountWindows}

\* The encs of every sequence and set of sizes, in every iteration order
\* of the specs
CountEncs ==
    UNION {
      LET specs == build_kmer_specs(ks)
          codes == build_codes_per_k(seq, specs)
      IN  {[seq |-> seq,
            encs |-> [j \in 1..Len(order) |-> Enc(order[j], specs, codes)]] :
              order \in Orders(ks)}
      : seq \in CountSeqs, ks \in CountKSets}

\* The caller's arguments: one empty map per window, the encs of the
\* sequence, chrom_len the length of the sequence
CountInit ==
    /\ \E a \in CountEncs, windows \in CountWindows :
         counting =
           [pc |-> "loop", seq |-> a.seq, chrom_len |-> Len(a.seq),
            encs |-> a.encs, windows |-> windows, win_idx |-> 0,
            counts_by_window |-> [w \in 1..Len(windows) |-> EmptyMap]]
    /\ codec = CodecIdle
    /\ merge = MergeIdle
    /\ mask = MaskIdle
    /\ overlap = OverlapIdle
    /\ chrom = ChromIdle
    /\ folding = UnitIdle
    /\ universe = UnitIdle
    /\ writing = UnitIdle
    /\ batch = UnitIdle
    /\ widthsel = UnitIdle
    /\ LastIdle

\* One iteration of the loop over the windows
CountOneWindow ==
    /\ counting.pc = "loop"
    /\ counting.win_idx < Len(counting.windows)
    /\ LET w == counting.win_idx + 1
           win_start == counting.windows[w][1]
           win_end == Min(counting.windows[w][2], counting.chrom_len)
       IN  counting' = [counting EXCEPT
               !.win_idx = w,
               !.counts_by_window[w] =
                   count_range(@, counting.encs, win_start, win_end)]
    /\ UNCHANGED <<codec, merge, mask, overlap, chrom>>
    /\ UNCHANGED <<folding, universe, writing, batch, widthsel>>
    /\ UNCHANGED last

CountReturn ==
    /\ counting.pc = "loop"
    /\ counting.win_idx = Len(counting.windows)
    /\ counting' = [counting EXCEPT !.pc = "done"]
    /\ UNCHANGED <<codec, merge, mask, overlap, chrom>>
    /\ UNCHANGED <<folding, universe, writing, batch, widthsel>>
    /\ UNCHANGED last

CountNext == CountOneWindow \/ CountReturn

SpecCount == CountInit /\ [][CountNext]_vars

\* The positions of window w whose k-mer of enc lies inside the clipped
\* window and has the code c
InsideWithCode(w, enc, c) ==
    {p \in 0..(counting.chrom_len - 1) :
        /\ counting.windows[w][1] <= p
        /\ p + enc.k <= Min(counting.windows[w][2], counting.chrom_len)
        /\ KmerCodes_get(enc.codes, p) = c}

C11_Final ==
    counting.pc = "done" =>
        \A w \in 1..Len(counting.windows) :
            LET m == counting.counts_by_window[w]
            IN  /\ \A key \in DOMAIN m :
                     \E j \in 1..Len(counting.encs) :
                        LET enc == counting.encs[j]
                        IN  /\ enc.k = key[1]
                            /\ key[2] # enc.none
                            /\ key[2] # enc.n
                            /\ m[key] =
                                 Cardinality(InsideWithCode(w, enc, key[2]))
                            /\ m[key] > 0
                /\ \A j \in 1..Len(counting.encs) :
                     LET enc == counting.encs[j]
                     IN  \A p \in 0..(counting.chrom_len - 1) :
                            LET c == KmerCodes_get(enc.codes, p)
                            IN  (/\ p \in InsideWithCode(w, enc, c)
                                 /\ c # enc.none
                                 /\ c # enc.n)
                                => <<enc.k, c>> \in DOMAIN m

C11_Step ==
    counting.pc = "loop" =>
        \A i \in 1..Len(counting.counts_by_window) :
            counting'.counts_by_window[i] # counting.counts_by_window[i]
                => i = counting.win_idx + 1

\* C11: when count_kmers_by_window returns, map i holds for every
\* non-sentinel code the number of positions of window i whose k-mer lies
\* inside the clipped window and has that code, and nothing else; and the
\* iteration for window i changes no map but map i.
C11_CountByWindow == [](C11_Final) /\ [][C11_Step]_vars

\* Two adjacent one-base windows on "AC" with k = 1 and k = 2: each holds
\* its own base, and the 2-mer AC across their border is in neither.
C11_Witness ==
    /\ counting.pc = "done"
    /\ counting.seq = <<"A", "C">>
    /\ Len(counting.encs) = 2
    /\ counting.windows = <<<<0, 1, 0>>, <<1, 2, 0>>>>
    /\ DOMAIN counting.counts_by_window[1] = {<<1, U64(0)>>}
    /\ DOMAIN counting.counts_by_window[2] = {<<1, U64(1)>>}
    /\ counting.counts_by_window[1][<<1, U64(0)>>] = 1

(***************************************************************************)
(* process_counts.rs: comp, revcomp, canonical.                            *)
(***************************************************************************)
\* The byte of a letter: String's Ord compares the bytes
Ascii(b) ==
    CASE b = "A" -> 65
      [] b = "C" -> 67
      [] b = "G" -> 71
      [] b = "N" -> 78
      [] b = "T" -> 84
      [] b = "X" -> 88
      [] b = "a" -> 97
      [] b = "c" -> 99
      [] b = "g" -> 103
      [] b = "n" -> 110
      [] b = "t" -> 116

\* a <= b for two strings: the first differing byte decides, a prefix is
\* smaller
RECURSIVE StrLeFrom(_, _, _)
StrLeFrom(a, b, i) ==
    IF i > Len(a) THEN TRUE
    ELSE IF i > Len(b) THEN FALSE
    ELSE IF a[i] = b[i] THEN StrLeFrom(a, b, i + 1)
    ELSE Ascii(a[i]) < Ascii(b[i])

StrLe(a, b) == StrLeFrom(a, b, 1)

comp(b) ==
    CASE b \in {"A", "a"} -> "T"
      [] b \in {"T", "t"} -> "A"
      [] b \in {"C", "c"} -> "G"
      [] b \in {"G", "g"} -> "C"
      [] b \in {"N", "n"} -> "N"
      [] OTHER -> b

revcomp(seq) == [i \in 1..Len(seq) |-> comp(seq[Len(seq) - i + 1])]

\* canonical that keeps the k-mer as it is
canonical_keep(kmer) == kmer

canonical(kmer) ==
    LET rc == revcomp(kmer)
    IN  IF StrLe(kmer, rc) THEN kmer ELSE rc

\* The motifs the decoder can produce, up to MaxMotifLen letters
DecoderLetters == {BASES[i] : i \in 1..Len(BASES)}

FoldMotifs == UNION {SeqsOfLen(DecoderLetters, n) : n \in 0..MaxMotifLen}

FoldInit ==
    /\ \E mo \in FoldMotifs :
         folding = [pc |-> "start", m |-> mo, rc |-> <<>>, canon |-> <<>>,
                    canon_rc |-> <<>>, canon_canon |-> <<>>]
    /\ codec = CodecIdle
    /\ merge = MergeIdle
    /\ mask = MaskIdle
    /\ overlap = OverlapIdle
    /\ chrom = ChromIdle
    /\ counting = UnitIdle
    /\ universe = UnitIdle
    /\ writing = UnitIdle
    /\ batch = UnitIdle
    /\ widthsel = UnitIdle
    /\ LastIdle

FoldRevcomp ==
    /\ folding.pc = "start"
    /\ folding' = [folding EXCEPT !.pc = "rc", !.rc = revcomp(folding.m)]
    /\ UNCHANGED <<codec, merge, mask, overlap, chrom>>
    /\ UNCHANGED <<counting, universe, writing, batch, widthsel>>
    /\ UNCHANGED last

\* canonical of the motif, of its reverse complement and of its own result
FoldCanonical ==
    /\ folding.pc = "rc"
    /\ folding' = [folding EXCEPT
                     !.pc = "done",
                     !.canon = canonical(folding.m),
                     !.canon_rc = canonical(folding.rc),
                     !.canon_canon = canonical(canonical(folding.m))]
    /\ UNCHANGED <<codec, merge, mask, overlap, chrom>>
    /\ UNCHANGED <<counting, universe, writing, batch, widthsel>>
    /\ UNCHANGED last

FoldNext == FoldRevcomp \/ FoldCanonical

SpecFold == FoldInit /\ [][FoldNext]_vars

\* C13: for every motif over A/C/G/T/N, canonical is idempotent, gives the
\* same for a motif and its reverse complement, keeps a motif that is its
\* own reverse complement, and is the lexicographically smaller of the two.
C13_CanonicalFold ==
    folding.pc = "done" =>
        /\ folding.canon_canon = folding.canon
        /\ folding.canon_rc = folding.canon
        /\ (folding.m = folding.rc => folding.canon = folding.m)
        /\ folding.canon \in {folding.m, folding.rc}
        /\ StrLe(folding.canon, folding.m)
        /\ StrLe(folding.canon, folding.rc)

\* TGN folds to its reverse complement NCA
C13_Witness ==
    /\ folding.pc = "done"
    /\ folding.m = <<"T", "G", "N">>
    /\ folding.rc = <<"N", "C", "A">>
    /\ folding.canon = <<"N", "C", "A">>

(***************************************************************************)
(* process_counts.rs: prepare_decoded_counts, one k per step.              *)
(***************************************************************************)
\* Largest k whose motif list is the whole motif space
\* (prepare_decoded_counts: k <= 6)
EnsureAllMax == 6

Range(f) == {f[x] : x \in DOMAIN f}

\* map.insert(k, v)
MapPut(f, k, v) == [x \in DOMAIN f \cup {k} |-> IF x = k THEN v ELSE f[x]]

HasNoN(mo) == \A i \in 1..Len(mo) : mo[i] # "N"

\* all_motifs: decode 0..=5^k - 1 and drop the motifs with an N
all_motifs(k, specs) ==
    LET spec == specs[k]
        max_code == 5^k - 1
    IN  SelectSeq([c \in 1..(max_code + 1) |->
                      decode_kmer(U64(c - 1), spec.k, spec.sentinel_none,
                                  spec.sentinel_n)],
                  HasNoN)

\* The loop of collapse_map with an insert in place of the sum
RECURSIVE collapse_map_loop_insert(_, _, _)
collapse_map_loop_insert(map, todo, out) ==
    IF todo = {} THEN out
    ELSE LET kmer == CHOOSE x \in todo : TRUE
         IN  collapse_map_loop_insert(map, todo \ {kmer},
                                      MapPut(out, canonical(kmer), map[kmer]))

\* collapse_map: the counts summed under the canonical key
RECURSIVE collapse_map_loop(_, _, _)
collapse_map_loop(map, todo, out) ==
    IF todo = {} THEN out
    ELSE LET kmer == CHOOSE x \in todo : TRUE
             canon == canonical(kmer)
             sum == IF canon \in DOMAIN out THEN out[canon] + map[kmer]
                    ELSE map[kmer]
         IN  collapse_map_loop(map, todo \ {kmer}, MapPut(out, canon, sum))

collapse_map(map) == collapse_map_loop(map, DOMAIN map, EmptyMap)

collapse_set(set) == {canonical(kmer) : kmer \in set}

\* The bytes strings are made of, ascending
ByteOrder == <<"A", "C", "G", "N", "T", "X", "a", "c", "g", "n", "t">>

\* sort_unstable of the strings collected from a set: the strings that end
\* before position pos first, then the others grouped by their byte at pos
RECURSIVE sort_set(_, _)
RECURSIVE sort_set_by_byte(_, _, _)
sort_set(S, pos) ==
    IF S = {} THEN <<>>
    ELSE LET ended == {x \in S : Len(x) < pos}
         IN  (IF ended = {} THEN <<>> ELSE <<CHOOSE x \in ended : TRUE>>)
             \o sort_set_by_byte(S \ ended, pos, 1)

sort_set_by_byte(S, pos, b) ==
    IF b > Len(ByteOrder) \/ S = {} THEN <<>>
    ELSE LET mine == {x \in S : x[pos] = ByteOrder[b]}
         IN  sort_set(mine, pos + 1) \o sort_set_by_byte(S \ mine, pos, b + 1)

\* sort_unstable of a Vec<String>, equal strings kept
RECURSIVE sort_vec(_, _)
RECURSIVE sort_vec_by_byte(_, _, _)
sort_vec(v, pos) ==
    IF Len(v) <= 1 THEN v
    ELSE LET Ended(x) == Len(x) < pos
             Going(x) == Len(x) >= pos
         IN  SelectSeq(v, Ended) \o sort_vec_by_byte(SelectSeq(v, Going),
                                                     pos, 1)

sort_vec_by_byte(v, pos, b) ==
    IF b > Len(ByteOrder) \/ v = <<>> THEN <<>>
    ELSE LET Mine(x) == x[pos] = ByteOrder[b]
             Other(x) == x[pos] # ByteOrder[b]
         IN  sort_vec(SelectSeq(v, Mine), pos + 1)
             \o sort_vec_by_byte(SelectSeq(v, Other), pos, b + 1)

extract_bins(windows, k, canon) ==
    [i \in 1..Len(windows) |->
        LET raw == IF k \in DOMAIN windows[i] THEN windows[i][k]
                   ELSE EmptyMap
        IN  IF canon THEN collapse_map(raw) ELSE raw]

\* collect_motifs that always takes the motifs seen in the windows
collect_motifs_seen_only(bins, base_motifs, canon, ensure_all) ==
    LET set == UNION {DOMAIN bins[i] : i \in 1..Len(bins)}
        collapsed_set == IF canon THEN collapse_set(set) ELSE set
    IN  sort_set(collapsed_set, 1)

collect_motifs(bins, base_motifs, canon, ensure_all) ==
    LET set == IF ensure_all THEN Range(base_motifs)
               ELSE UNION {DOMAIN bins[i] : i \in 1..Len(bins)}
        collapsed_set == IF canon THEN collapse_set(set) ELSE set
    IN  sort_set(collapsed_set, 1)

prepare_kmer_category(windows, kmer_specs, k, canon, ensure_all) ==
    LET raw_bins == extract_bins(windows, k, canon)
        base_motifs == IF ensure_all THEN all_motifs(k, kmer_specs)
                       ELSE <<>>
        motifs == collect_motifs(raw_bins, base_motifs, canon, ensure_all)
    IN  [bins |-> raw_bins, motifs |-> sort_vec(motifs, 1)]

\* Three motifs of k letters: AA..A, AA..C and its reverse complement GT..T
SampleMotif(k, j) ==
    CASE j = 1 -> [i \in 1..k |-> "A"]
      [] j = 2 -> [i \in 1..k |-> IF i = k THEN "C" ELSE "A"]
      [] j = 3 -> [i \in 1..k |-> IF i = 1 THEN "G" ELSE "T"]

SampleOf(k, S) == {SampleMotif(k, j) : j \in S}

\* One window's DecodedCounts: for every k the sample motifs of S, motif j
\* seen j times; no key at all when nothing was seen
SampleWindow(ks, S) ==
    [k \in (IF S = {} THEN {} ELSE ks) |->
        [mo \in SampleOf(k, S) |->
            CHOOSE j \in S : SampleMotif(k, j) = mo]]

SampleWindows(ks, n) ==
    UNION {[1..len -> {SampleWindow(ks, S) : S \in SUBSET (1..3)}] :
              len \in 0..n}

\* Sizes on both sides of EnsureAllMax, with any windows; and EnsureAllMax
\* itself with at most one window
UniverseArgs ==
    UNION {
      {[kmer_specs |-> build_kmer_specs(ks), todo |-> order,
        windows |-> windows] :
          order \in Orders(ks), windows \in SampleWindows(ks, MaxUniWindows)}
      : ks \in {{1}, {2}, {EnsureAllMax + 1}, {1, EnsureAllMax + 1}}}
    \cup
      {[kmer_specs |-> build_kmer_specs({EnsureAllMax}),
        todo |-> <<EnsureAllMax>>, windows |-> windows] :
          windows \in SampleWindows({EnsureAllMax}, 1)}

UniverseInit ==
    /\ \E a \in UniverseArgs, canon \in BOOLEAN :
         universe =
           [pc |-> "loop", canon |-> canon, windows |-> a.windows,
            kmer_specs |-> a.kmer_specs, todo |-> a.todo,
            out |-> [i \in 1..Len(a.windows) |-> <<>>],
            motifs_by_k |-> <<>>]
    /\ codec = CodecIdle
    /\ merge = MergeIdle
    /\ mask = MaskIdle
    /\ overlap = OverlapIdle
    /\ chrom = ChromIdle
    /\ counting = UnitIdle
    /\ folding = UnitIdle
    /\ writing = UnitIdle
    /\ batch = UnitIdle
    /\ widthsel = UnitIdle
    /\ LastIdle

\* One iteration of `for (&k, _) in kmer_specs`
PrepareOneK ==
    /\ universe.pc = "loop"
    /\ universe.todo # <<>>
    /\ LET k == Head(universe.todo)
       IN  \E r \in {prepare_kmer_category(universe.windows,
                                           universe.kmer_specs, k,
                                           universe.canon,
                                           k <= EnsureAllMax)} :
              universe' = [universe EXCEPT
                  !.todo = Tail(@),
                  !.out = [i \in 1..Len(universe.windows) |->
                             MapPut(@[i], k, r.bins[i])],
                  !.motifs_by_k = MapPut(@, k, r.motifs)]
    /\ UNCHANGED <<codec, merge, mask, overlap, chrom>>
    /\ UNCHANGED <<counting, folding, writing, batch, widthsel>>
    /\ UNCHANGED last

PrepareReturn ==
    /\ universe.pc = "loop"
    /\ universe.todo = <<>>
    /\ universe' = [universe EXCEPT !.pc = "done"]
    /\ UNCHANGED <<codec, merge, mask, overlap, chrom>>
    /\ UNCHANGED <<counting, folding, writing, batch, widthsel>>
    /\ UNCHANGED last

UniverseNext == PrepareOneK \/ PrepareReturn

SpecUniverse == UniverseInit /\ [][UniverseNext]_vars

\* The motifs with an entry for k in at least one window
Observed(k) ==
    UNION {DOMAIN universe.windows[i][k] :
              i \in {x \in 1..Len(universe.windows) :
                        k \in DOMAIN universe.windows[x]}}

Folded(S) == IF universe.canon THEN {canonical(x) : x \in S} ELSE S

StrictlyAscending(list) ==
    \A i \in 1..(Len(list) - 1) :
        list[i] # list[i + 1] /\ StrLe(list[i], list[i + 1])

\* C12: the motif list of every k is strictly ascending and is, for
\* k <= 6, the set of all 4^k motifs over A/C/G/T (folded when folding is
\* on) whatever was observed, and for k > 6 the set of the observed motifs
\* (folded when folding is on).
C12_MotifUniverse ==
    universe.pc = "done" =>
        /\ DOMAIN universe.motifs_by_k = DOMAIN universe.kmer_specs
        /\ \A k \in DOMAIN universe.motifs_by_k :
             LET list == universe.motifs_by_k[k]
             IN  /\ StrictlyAscending(list)
                 /\ Range(list) =
                      IF k <= 6
                      THEN Folded(SeqsOfLen({"A", "C", "G", "T"}, k))
                      ELSE Folded(Observed(k))

\* Folding on, k = 1 and k = 7, one window that saw G and GTTTTTT: the list
\* of k = 1 is A, C and the list of k = 7 is AAAAAAC alone.
C12_Witness ==
    /\ universe.pc = "done"
    /\ universe.canon
    /\ DOMAIN universe.motifs_by_k = {1, 7}
    /\ Len(universe.windows) = 1
    /\ Observed(1) = {<<"G">>}
    /\ universe.motifs_by_k[1] = <<<<"A">>, <<"C">>>>
    /\ universe.motifs_by_k[7] = <<<<"A", "A", "A", "A", "A", "A", "C">>>>

(***************************************************************************)
(* write.rs: write_category and write_category_sparse.                     *)
(***************************************************************************)
\* motifs.iter().enumerate().map(|(c, m)| (m, c)).collect(), 0-based; the
\* lookup with the columns counted from the last motif
col_of_from_end(motifs) ==
    [mo \in Range(motifs) |->
        Len(motifs) - (CHOOSE c \in 1..Len(motifs) : motifs[c] = mo)]

\* A later insert of the same key replaces the earlier one
col_of(motifs) ==
    [mo \in Range(motifs) |->
        (CHOOSE c \in 1..Len(motifs) :
            /\ motifs[c] = mo
            /\ \A d \in 1..Len(motifs) : motifs[d] = mo => d <= c) - 1]

motif_index_from_end(motifs) == col_of_from_end(motifs)

motif_index(motifs) == col_of(motifs)

\* for (motif, &cnt) in hm: mat[(row, col)] = cnt when the motif has a column
RECURSIVE dense_row_loop(_, _, _, _)
dense_row_loop(hm, todo, cols, row) ==
    IF todo = {} THEN row
    ELSE LET motif == CHOOSE x \in todo : TRUE
             next == IF motif \in DOMAIN cols
                     THEN [row EXCEPT ![cols[motif] + 1] = hm[motif]]
                     ELSE row
         IN  dense_row_loop(hm, todo \ {motif}, cols, next)

\* What write_category leaves on disk: nothing for an empty `bins`, else
\* the matrix and the motif file
write_category(bins, motifs) ==
    IF bins = <<>> THEN [written |-> FALSE, mat |-> <<>>, txt |-> <<>>]
    ELSE LET n_rows == Len(bins)
             n_cols == Len(motifs)
             zeros == [c \in 1..n_cols |-> 0]
             cols == col_of(motifs)
         IN  [written |-> TRUE,
              mat |-> [r \in 1..n_rows |->
                         dense_row_loop(bins[r], DOMAIN bins[r], cols,
                                        zeros)],
              txt |-> motifs]

\* The orders in which a map may be iterated
KeyOrders(hm) ==
    {o \in [1..Cardinality(DOMAIN hm) -> DOMAIN hm] :
        \A i, j \in DOMAIN o : i # j => o[i] # o[j]}

\* The triples of one row, its keys iterated in the given order
RECURSIVE sparse_row_loop(_, _, _, _, _)
sparse_row_loop(hm, order, j, index, ri) ==
    IF j > Len(order) THEN <<>>
    ELSE LET motif == order[j]
             rest == sparse_row_loop(hm, order, j + 1, index, ri)
         IN  IF motif \in DOMAIN index
             THEN <<[row |-> ri, col |-> index[motif], val |-> hm[motif]]>>
                  \o rest
             ELSE rest

RECURSIVE sparse_rows(_, _, _, _)
sparse_rows(bins, orders, r, index) ==
    IF r > Len(bins) THEN <<>>
    ELSE sparse_row_loop(bins[r], orders[r], 1, index, r - 1)
         \o sparse_rows(bins, orders, r + 1, index)

\* What write_category_sparse leaves on disk, the maps iterated in `orders`
write_category_sparse(bins, motifs, orders) ==
    IF bins = <<>>
    THEN [written |-> FALSE, row |-> <<>>, col |-> <<>>, val |-> <<>>,
          shape |-> <<>>, txt |-> <<>>]
    ELSE LET t == sparse_rows(bins, orders, 1, motif_index(motifs))
         IN  [written |-> TRUE,
              row |-> [i \in 1..Len(t) |-> t[i].row],
              col |-> [i \in 1..Len(t) |-> t[i].col],
              val |-> [i \in 1..Len(t) |-> t[i].val],
              shape |-> <<Len(bins), Len(motifs)>>,
              txt |-> motifs]

\* One-letter motifs; T may be counted in a window without having a column
WriterMotifs == {<<"A">>, <<"C">>, <<"T">>}

\* Motif lists: distinct motifs in any order
MotifLists ==
    UNION {{l \in [1..n -> WriterMotifs] :
               \A i, j \in 1..n : i # j => l[i] # l[j]} : n \in 0..MaxCols}

\* Count maps: the pipeline's hold counts of 1 and more, others may hold 0
CellCounts == {0, 1, 2}

WriterMaps ==
    UNION {[S -> CellCounts] : S \in SUBSET {<<"A">>, <<"T">>}}

WriterBins == UNION {[1..n -> WriterMaps] : n \in 0..MaxRows}

WriterInit ==
    /\ \E bins \in WriterBins, motifs \in MotifLists, sparse \in BOOLEAN :
         writing = [pc |-> "start", bins |-> bins, motifs |-> motifs,
                    save_sparse |-> sparse, out |-> <<>>]
    /\ codec = CodecIdle
    /\ merge = MergeIdle
    /\ mask = MaskIdle
    /\ overlap = OverlapIdle
    /\ chrom = ChromIdle
    /\ counting = UnitIdle
    /\ folding = UnitIdle
    /\ universe = UnitIdle
    /\ batch = UnitIdle
    /\ widthsel = UnitIdle
    /\ LastIdle

WriteDense ==
    /\ writing.pc = "start"
    /\ ~writing.save_sparse
    /\ writing' = [writing EXCEPT
                     !.pc = "done",
                     !.out = write_category(writing.bins, writing.motifs)]
    /\ UNCHANGED <<codec, merge, mask, overlap, chrom>>
    /\ UNCHANGED <<counting, folding, universe, batch, widthsel>>
    /\ UNCHANGED last

WriteSparse ==
    /\ writing.pc = "start"
    /\ writing.save_sparse
    /\ \E orders \in [1..Len(writing.bins) -> 
                        UNION {KeyOrders(hm) : hm \in WriterMaps}] :
         /\ \A r \in 1..Len(writing.bins) :
               orders[r] \in KeyOrders(writing.bins[r])
         /\ writing' = [writing EXCEPT
                          !.pc = "done",
                          !.out = write_category_sparse(writing.bins,
                                                        writing.motifs,
                                                        orders)]
    /\ UNCHANGED <<codec, merge, mask, overlap, chrom>>
    /\ UNCHANGED <<counting, folding, universe, batch, widthsel>>
    /\ UNCHANGED last

WriterNext == WriteDense \/ WriteSparse

SpecWriter == WriterInit /\ [][WriterNext]_vars

\* Window r's count of the motif, 0 when its map has no entry for it
CountIn(hm, motif) == IF motif \in DOMAIN hm THEN hm[motif] ELSE 0

\* C14: the dense matrix has one row per window and one column per motif
\* of the list, in their orders; cell (r, c) is window r's count of motif c,
\* 0 without an entry; the motif file lists the motifs in column order.
C14_DenseMatrix ==
    (writing.pc = "done" /\ ~writing.save_sparse /\ writing.bins # <<>>) =>
        /\ writing.out.written
        /\ Len(writing.out.mat) = Len(writing.bins)
        /\ \A r \in 1..Len(writing.bins) :
             /\ Len(writing.out.mat[r]) = Len(writing.motifs)
             /\ \A c \in 1..Len(writing.motifs) :
                  writing.out.mat[r][c] =
                      CountIn(writing.bins[r], writing.motifs[c])
        /\ writing.out.txt = writing.motifs

\* Columns C, A; the first window counted A twice and T once, the second
\* nothing: rows (0, 2) and (0, 0).
C14_Witness ==
    /\ writing.pc = "done"
    /\ ~writing.save_sparse
    /\ writing.motifs = <<<<"C">>, <<"A">>>>
    /\ Len(writing.bins) = 2
    /\ DOMAIN writing.bins[1] = {<<"A">>, <<"T">>}
    /\ writing.bins[1][<<"A">>] = 2
    /\ writing.bins[1][<<"T">>] = 1
    /\ DOMAIN writing.bins[2] = {}
    /\ writing.out.mat = <<<<0, 2>>, <<0, 0>>>>

\* The maps the pipeline produces hold no zero count
PipelineMaps(bins) ==
    \A r \in 1..Len(bins) : \A mo \in DOMAIN bins[r] : bins[r][mo] >= 1

\* The triples expanded into a zero matrix, 0-based indices
RECURSIVE SumAt(_, _, _, _)
SumAt(out, i, r, c) ==
    IF i > Len(out.val) THEN 0
    ELSE (IF out.row[i] = r /\ out.col[i] = c THEN out.val[i] ELSE 0)
         + SumAt(out, i + 1, r, c)

Expanded(out) ==
    [r \in 1..out.shape[1] |->
        [c \in 1..out.shape[2] |-> SumAt(out, 1, r - 1, c - 1)]]

\* The cells (row, column), counted from 1, with a non-zero count
NonZeroCells ==
    {q \in (1..Len(writing.bins)) \X (1..Len(writing.motifs)) :
        CountIn(writing.bins[q[1]], writing.motifs[q[2]]) # 0}

\* C15: on the maps the pipeline produces the three arrays have one length
\* and hold exactly the (window, motif) pairs with a non-zero count, each
\* once; the shape is [windows, motifs]; expanded, the triples give the
\* dense path's matrix.
C15_SparseTriples ==
    (/\ writing.pc = "done"
     /\ writing.save_sparse
     /\ writing.bins # <<>>
     /\ PipelineMaps(writing.bins)) =>
        LET out == writing.out
            n == Len(out.val)
        IN  /\ out.written
            /\ Len(out.row) = n
            /\ Len(out.col) = n
            /\ \A i, j \in 1..n :
                 (out.row[i] = out.row[j] /\ out.col[i] = out.col[j])
                     => i = j
            /\ {<<out.row[i], out.col[i]>> : i \in 1..n} =
                 {<<q[1] - 1, q[2] - 1>> : q \in NonZeroCells}
            /\ \A i \in 1..n : out.val[i] # 0
            /\ out.shape = <<Len(writing.bins), Len(writing.motifs)>>
            /\ Expanded(out) =
                 write_category(writing.bins, writing.motifs).mat

\* Columns T, A; one window with A once and T twice, A iterated first: the
\* triples (0, 1, 1) and (0, 0, 2).
C15_Witness ==
    /\ writing.pc = "done"
    /\ writing.save_sparse
    /\ writing.motifs = <<<<"T">>, <<"A">>>>
    /\ Len(writing.bins) = 1
    /\ PipelineMaps(writing.bins)
    /\ writing.out.row = <<0, 0>>
    /\ writing.out.col = <<1, 0>>
    /\ writing.out.val = <<1, 2>>

(***************************************************************************)
(* bin/reference.rs: run.  Cli::parse, the loads, build_kmer_specs, the    *)
(* chromosome units on the thread pool, the collection of their results,   *)
(* the aggregation, the re-sort of the by-bed rows and the writes.         *)
(***************************************************************************)
\* The loop of build_kmer_specs that does not look for repeated sizes
RECURSIVE build_kmer_specs_loop_no_seen(_, _, _, _)
build_kmer_specs_loop_no_seen(kmer_sizes, i, seen, specs) ==
    IF i > Len(kmer_sizes) THEN [ok |-> TRUE, specs |-> specs]
    ELSE LET k == kmer_sizes[i]
         IN  IF k < 1 THEN [ok |-> FALSE, specs |-> <<>>]
             ELSE IF k > MaxK THEN [ok |-> FALSE, specs |-> <<>>]
             ELSE IF ~choose_width(k).ok THEN [ok |-> FALSE, specs |-> <<>>]
             ELSE build_kmer_specs_loop_no_seen(
                      kmer_sizes, i + 1, seen \cup {k},
                      MapPut(specs, k, KmerSpec(k)))

\* build_kmer_specs over the list as given: the first illegal or repeated
\* size is an error
RECURSIVE build_kmer_specs_loop(_, _, _, _)
build_kmer_specs_loop(kmer_sizes, i, seen, specs) ==
    IF i > Len(kmer_sizes) THEN [ok |-> TRUE, specs |-> specs]
    ELSE LET k == kmer_sizes[i]
         IN  IF k < 1 THEN [ok |-> FALSE, specs |-> <<>>]
             ELSE IF k > MaxK THEN [ok |-> FALSE, specs |-> <<>>]
             ELSE IF k \in seen THEN [ok |-> FALSE, specs |-> <<>>]
             ELSE IF ~choose_width(k).ok THEN [ok |-> FALSE, specs |-> <<>>]
             ELSE build_kmer_specs_loop(kmer_sizes, i + 1, seen \cup {k},
                                        MapPut(specs, k, KmerSpec(k)))

build_kmer_specs_result(kmer_sizes) ==
    build_kmer_specs_loop(kmer_sizes, 1, {}, <<>>)

\* value_parser!(u8).range(1..28) of --kmer-sizes
cli_accepts(kmer_sizes) ==
    \A i \in 1..Len(kmer_sizes) : kmer_sizes[i] >= 1 /\ kmer_sizes[i] < 28

\* The size lists of the runs: legal ones, a repeated size, 0 and 28
KmerSizeLists == {<<1>>, <<2, 1>>, <<1, 1>>, <<0>>, <<2, 28>>}

SpecsOfList == [l \in KmerSizeLists |-> build_kmer_specs_result(l)]

ChromNames == {"c1", "c2"}

\* The lengths of the chromosomes in the 2bit file
ChromLenOf(chr) == IF chr = "c1" THEN 2 ELSE 1

\* resolve_chromosomes: the names as given, repeated names included
ChromLists == UNION {[1..n -> ChromNames] : n \in 0..MaxChroms}

\* The lines of the window BED file: chromosome, start, end
BedLine == {<<c, w[1], w[2]>> : c \in ChromNames, w \in {<<0, 1>>, <<1, 2>>}}

BedFiles == UNION {[1..n -> BedLine] : n \in 0..MaxBedLines}

\* load_windows, the lines read: the kept lines get 0, 1, 2.. as win_idx
RECURSIVE load_windows_read(_, _, _, _, _)
load_windows_read(bed, chromosomes, i, win_idx, mapping) ==
    IF i > Len(bed) THEN mapping
    ELSE LET chr == bed[i][1]
         IN  IF chr \notin Range(chromosomes)
             THEN load_windows_read(bed, chromosomes, i + 1, win_idx,
                                    mapping)
             ELSE load_windows_read(
                      bed, chromosomes, i + 1, win_idx + 1,
                      [mapping EXCEPT
                          ![chr] = Append(@, <<bed[i][2], bed[i][3],
                                               win_idx>>)])

\* The arrangements sort_unstable_by_key may leave: ascending keys, equal
\* keys in any order.  left is the set of indices not yet placed; any
\* element with a smallest key may come next.
RECURSIVE SortedFrom(_, _, _)
SortedFrom(v, Key(_), left) ==
    IF left = {} THEN {<<>>}
    ELSE UNION {{<<v[i]>> \o t : t \in SortedFrom(v, Key, left \ {i})} :
                  i \in {j \in left :
                            \A h \in left : TupleLe(Key(v[j]), Key(v[h]))}}

SortedBy(v, Key(_)) == SortedFrom(v, Key, DOMAIN v)

WindowKey(w) == <<w[1], w[2]>>

\* What load_windows may return: every chromosome of the list has an entry
load_windows(bed, chromosomes) ==
    LET read == load_windows_read(bed, chromosomes, 1, 0,
                                  [c \in Range(chromosomes) |-> <<>>])
    IN  {m \in [Range(chromosomes) ->
                   UNION {SortedBy(read[c], WindowKey) :
                             c \in Range(chromosomes)}] :
            \A c \in Range(chromosomes) :
                m[c] \in SortedBy(read[c], WindowKey)}

\* What process_chrom returns for a chromosome, as far as the run looks at
\* it: per window the count map (named by the window it was counted in)
\* and the bin_info entry
unit_windows(chr, mode, sz, windows_map) ==
    CASE mode = "by_size" -> by_size_windows(ChromLenOf(chr), sz)
      [] mode = "by_bed" -> windows_map[chr]
      [] mode = "global" -> global_windows(ChromLenOf(chr))

unit_result(chr, mode, sz, windows_map) ==
    LET windows == unit_windows(chr, mode, sz, windows_map)
    IN  [w \in 1..Len(windows) |->
           [counts |-> <<chr, windows[w][1],
                         Min(windows[w][2], ChromLenOf(chr)),
                         windows[w][3]>>,
            info |-> <<chr, windows[w][1],
                       Min(windows[w][2], ChromLenOf(chr)),
                       windows[w][3]>>]]

\* collect() that takes the results in the order the units finished
RECURSIVE collect_as_finished(_, _, _)
collect_as_finished(results, completion, i) ==
    IF i > Len(completion) THEN <<>>
    ELSE <<results[completion[i]]>>
         \o collect_as_finished(results, completion, i + 1)

\* collect() of the indexed parallel iterator: item i is unit i's result
collect(results, completion, i) ==
    [j \in 1..Len(results) |-> results[j]]

\* for (counts_by_bin, bin_vec) in results: extend all_bins and bin_info
RECURSIVE extend_all(_, _)
extend_all(results, i) ==
    IF i > Len(results) THEN <<>>
    ELSE results[i] \o extend_all(results, i + 1)

InfoKey(p) == <<p.info[4], 0>>

\* The by-bed re-sort left out
resort_kept(paired) == {paired}

\* paired.sort_unstable_by_key(|(info, _)| info.3)
resort(paired) == SortedBy(paired, InfoKey)

RunIdle ==
    [pc |-> "start", entry |-> "run", chromosomes |-> <<>>,
     mode |-> "global", sz |-> 1, bed |-> <<>>, kmer_sizes |-> <<>>,
     n_threads |-> 1, windows_map |-> <<>>, kmer_specs |-> <<>>,
     error |-> "none",
     unit |-> <<>>, results |-> <<>>, completion |-> <<>>,
     collected |-> <<>>, all_bins |-> <<>>, bin_info |-> <<>>,
     prepared_counts |-> <<>>, files |-> {}, matrix_rows |-> <<>>,
     bed_lines |-> <<>>]

\* The window options: --by-size 1, --global, or --by-bed with a file
WindowOptions ==
    {[mode |-> "by_size", bed |-> <<>>], [mode |-> "global", bed |-> <<>>]}
        \cup {[mode |-> "by_bed", bed |-> b] : b \in BedFiles}

RunInit ==
    /\ \/ \E chromosomes \in ChromLists, o \in WindowOptions,
             kmer_sizes \in KmerSizeLists, n_threads \in 1..MaxThreads :
            batch = [RunIdle EXCEPT
                       !.chromosomes = chromosomes, !.mode = o.mode,
                       !.bed = o.bed, !.kmer_sizes = kmer_sizes,
                       !.n_threads = n_threads]
       \/ \E kmer_sizes \in KmerSizeLists :
            batch = [RunIdle EXCEPT !.entry = "lib",
                                    !.kmer_sizes = kmer_sizes]
    /\ codec = CodecIdle
    /\ merge = MergeIdle
    /\ mask = MaskIdle
    /\ overlap = OverlapIdle
    /\ chrom = ChromIdle
    /\ counting = UnitIdle
    /\ folding = UnitIdle
    /\ universe = UnitIdle
    /\ writing = UnitIdle
    /\ widthsel = UnitIdle
    /\ LastIdle

RunFrame ==
    /\ UNCHANGED <<codec, merge, mask, overlap, chrom>>
    /\ UNCHANGED <<counting, folding, universe, writing, widthsel>>
    /\ UNCHANGED last

\* build_kmer_specs called on its own
LibBuildKmerSpecs ==
    /\ batch.entry = "lib"
    /\ batch.pc = "start"
    /\ LET r == SpecsOfList[batch.kmer_sizes]
       IN  batch' = [batch EXCEPT
                       !.pc = IF r.ok THEN "lib_ok" ELSE "lib_err",
                       !.kmer_specs = r.specs]
    /\ RunFrame

\* Cli::parse: a size outside 1..27 ends the process with a usage error
RunParse ==
    /\ batch.entry = "run"
    /\ batch.pc = "start"
    /\ batch' = [batch EXCEPT
                   !.pc = IF cli_accepts(batch.kmer_sizes) THEN "parsed"
                          ELSE "usage_error"]
    /\ RunFrame

\* create_dir_all, load_blacklists, load_windows
RunLoad ==
    /\ batch.pc = "parsed"
    /\ \/ /\ batch.mode = "by_bed"
          /\ \E m \in load_windows(batch.bed, batch.chromosomes) :
               batch' = [batch EXCEPT !.pc = "loaded", !.windows_map = m]
       \/ /\ batch.mode # "by_bed"
          /\ batch' = [batch EXCEPT !.pc = "loaded"]
    /\ RunFrame

\* One of the loads returned an error
RunLoadFail ==
    /\ batch.pc = "parsed"
    /\ batch' = [batch EXCEPT !.pc = "failed", !.error = "load"]
    /\ RunFrame

\* build_kmer_specs(&opt.kmer_sizes)?, then the pool and the par_iter
RunBuildSpecs ==
    /\ batch.pc = "loaded"
    /\ LET r == SpecsOfList[batch.kmer_sizes]
           n == Len(batch.chromosomes)
       IN  IF r.ok
           THEN batch' = [batch EXCEPT
                            !.pc = "counting",
                            !.kmer_specs = r.specs,
                            !.unit = [i \in 1..n |-> "queued"],
                            !.results = [i \in 1..n |-> <<>>]]
           ELSE batch' = [batch EXCEPT !.pc = "failed",
                                       !.error = "kmer_sizes"]
    /\ RunFrame

Running == {i \in DOMAIN batch.unit : batch.unit[i] = "running"}

\* A free worker takes a chromosome
UnitStart(i) ==
    /\ batch.pc = "counting"
    /\ batch.unit[i] = "queued"
    /\ Cardinality(Running) < batch.n_threads
    /\ batch' = [batch EXCEPT !.unit[i] = "running"]
    /\ RunFrame

\* process_chrom returned Ok
UnitOk(i) ==
    /\ batch.pc = "counting"
    /\ batch.unit[i] = "running"
    /\ batch' = [batch EXCEPT
                   !.unit[i] = "ok",
                   !.results[i] = unit_result(batch.chromosomes[i],
                                              batch.mode, batch.sz,
                                              batch.windows_map),
                   !.completion = Append(@, i)]
    /\ RunFrame

\* process_chrom returned Err
UnitErr(i) ==
    /\ batch.pc = "counting"
    /\ batch.unit[i] = "running"
    /\ batch' = [batch EXCEPT !.unit[i] = "err",
                              !.completion = Append(@, i)]
    /\ RunFrame

\* An Ok as soon as no unit is queued or running
all_settled(unit) == \A i \in DOMAIN unit : unit[i] \in {"ok", "err"}

\* Whether collect::<Result<_>>() has an Ok to return
all_ok(unit) == \A i \in DOMAIN unit : unit[i] = "ok"

\* .collect::<Result<_>>()? with every unit Ok
RunCollect ==
    /\ batch.pc = "counting"
    /\ all_ok(batch.unit)
    /\ batch' = [batch EXCEPT
                   !.pc = "collected",
                   !.collected = collect(batch.results, batch.completion, 1)]
    /\ RunFrame

\* .collect::<Result<_>>()? with an Err: the units not yet taken are
\* dropped and run returns the error
RunCollectErr ==
    /\ batch.pc = "counting"
    /\ Running = {}
    /\ \E i \in DOMAIN batch.unit : batch.unit[i] = "err"
    /\ batch' = [batch EXCEPT
                   !.pc = "failed",
                   !.error = "unit",
                   !.unit = [i \in DOMAIN batch.unit |->
                               IF batch.unit[i] = "queued" THEN "skipped"
                               ELSE batch.unit[i]]]
    /\ RunFrame

\* The loop over results, merge_decoded_counts for --global, and
\* prepare_decoded_counts: one prepared row per aggregated row, in order
RunAggregate ==
    /\ batch.pc = "collected"
    /\ LET rows == extend_all(batch.collected, 1)
           all_bins == IF batch.mode = "global"
                       THEN <<[counts |-> {rows[i].counts :
                                              i \in 1..Len(rows)},
                               info |-> <<>>]>>
                       ELSE rows
       IN  batch' = [batch EXCEPT
               !.pc = "prepared",
               !.all_bins = all_bins,
               !.bin_info = IF batch.mode = "global" THEN <<>>
                            ELSE [i \in 1..Len(rows) |-> rows[i].info],
               !.prepared_counts =
                   [i \in 1..Len(all_bins) |-> all_bins[i].counts]]
    /\ RunFrame

\* if opt.by_bed.is_some(): zip, sort by original index, unzip
RunResort ==
    /\ batch.pc = "prepared"
    /\ IF batch.mode = "by_bed"
       THEN \E paired \in resort(
                   [i \in 1..Min(Len(batch.bin_info),
                                 Len(batch.prepared_counts)) |->
                       [info |-> batch.bin_info[i],
                        counts |-> batch.prepared_counts[i]]]) :
               batch' = [batch EXCEPT
                   !.pc = "sorted",
                   !.bin_info = [i \in 1..Len(paired) |-> paired[i].info],
                   !.prepared_counts =
                       [i \in 1..Len(paired) |-> paired[i].counts]]
       ELSE batch' = [batch EXCEPT !.pc = "sorted"]
    /\ RunFrame

\* The files of the sizes ks: the matrix and the motif list of each
files_of(ks) == {<<"counts", k>> : k \in ks} \cup {<<"motifs", k>> : k \in ks}

\* write_decoded_counts_matrix: a file per k unless there is no row
RunWriteCounts ==
    /\ batch.pc = "sorted"
    /\ batch' = [batch EXCEPT
                   !.pc = "counts_written",
                   !.files = IF batch.prepared_counts = <<>> THEN @
                             ELSE @ \cup files_of(DOMAIN batch.kmer_specs),
                   !.matrix_rows = batch.prepared_counts]
    /\ RunFrame

\* A create or write of write_category / write_category_sparse fails: the
\* sizes written before (keys() comes in any order) have their files, the
\* failing size may have its matrix but not its motif list
RunWriteCountsFail ==
    /\ batch.pc = "sorted"
    /\ batch.prepared_counts # <<>>
    /\ \E f \in DOMAIN batch.kmer_specs, half \in BOOLEAN :
       \E before \in SUBSET (DOMAIN batch.kmer_specs \ {f}) :
         batch' = [batch EXCEPT
                     !.pc = "failed",
                     !.error = "write",
                     !.files = files_of(before)
                               \cup (IF half THEN {<<"counts", f>>}
                                     ELSE {})]
    /\ RunFrame

\* File::create of bins.bed or a writeln! to it fails
RunWriteBedFail ==
    /\ batch.pc = "counts_written"
    /\ batch.mode # "global"
    /\ batch' = [batch EXCEPT !.pc = "failed", !.error = "write"]
    /\ RunFrame

\* bins.bed unless --global, then Ok(())
RunWriteBed ==
    /\ batch.pc = "counts_written"
    /\ batch' = [batch EXCEPT
                   !.pc = "done",
                   !.files = IF batch.mode = "global" THEN @
                             ELSE @ \cup {<<"bins.bed", 0>>},
                   !.bed_lines = IF batch.mode = "global" THEN <<>>
                                 ELSE batch.bin_info]
    /\ RunFrame

RunNext ==
    \/ LibBuildKmerSpecs
    \/ RunParse
    \/ RunLoad
    \/ RunLoadFail
    \/ RunBuildSpecs
    \/ \E i \in DOMAIN batch.unit : UnitStart(i) \/ UnitOk(i) \/ UnitErr(i)
    \/ RunCollect
    \/ RunCollectErr
    \/ RunAggregate
    \/ RunResort
    \/ RunWriteCounts
    \/ RunWriteCountsFail
    \/ RunWriteBed
    \/ RunWriteBedFail

SpecRun == RunInit /\ [][RunNext]_vars

(***************************************************************************)
(* Properties of the run.                                                  *)
(***************************************************************************)
PostCollect == {"collected", "prepared", "sorted", "counts_written", "done"}

\* The rows of the units, chromosome after chromosome in list order
ExpectedRows ==
    extend_all([i \in 1..Len(batch.chromosomes) |->
                  unit_result(batch.chromosomes[i], batch.mode, batch.sz,
                              batch.windows_map)], 1)

Infos(rows) == [i \in 1..Len(rows) |-> rows[i].info]

Counts(rows) == [i \in 1..Len(rows) |-> rows[i].counts]

\* C16: whatever the order in which the units finish, the collected
\* results are the units' results in chromosome-list order, the aggregated
\* rows and coordinate entries are grouped by chromosome in that order with
\* each chromosome's windows in processing order, and what is written is
\* fixed by the inputs alone.
C16_DeterministicMerge ==
    /\ batch.pc = "collected" =>
         batch.collected =
             [i \in 1..Len(batch.chromosomes) |->
                 unit_result(batch.chromosomes[i], batch.mode, batch.sz,
                             batch.windows_map)]
    /\ (batch.pc = "prepared" /\ batch.mode # "global") =>
         /\ batch.bin_info = Infos(ExpectedRows)
         /\ batch.prepared_counts = Counts(ExpectedRows)
    /\ (batch.pc = "prepared" /\ batch.mode = "global") =>
         /\ batch.bin_info = <<>>
         /\ batch.prepared_counts =
              <<{ExpectedRows[i].counts : i \in 1..Len(ExpectedRows)}>>
    /\ (batch.pc = "done" /\ batch.mode = "by_size") =>
         /\ batch.bed_lines = Infos(ExpectedRows)
         /\ batch.matrix_rows = Counts(ExpectedRows)
    /\ (batch.pc = "done" /\ batch.mode = "by_bed") =>
         \A p \in resort(ExpectedRows) :
             /\ batch.bed_lines = Infos(p)
             /\ batch.matrix_rows = Counts(p)

\* c2 finished before c1, and the lines are those of c1, then that of c2
C16_Witness ==
    /\ batch.pc = "done"
    /\ batch.mode = "by_size"
    /\ batch.chromosomes = <<"c1", "c2">>
    /\ batch.completion = <<2, 1>>
    /\ batch.bed_lines =
         <<<<"c1", 0, 1, 0>>, <<"c1", 1, 2, 1>>, <<"c2", 0, 1, 0>>>>

\* C17: once a unit has failed nothing is ever aggregated or written, also
\* not for the units that had returned Ok, and run returns an error; the
\* genome-wide structures exist only when every unit has returned Ok.
C17_FailFast ==
    /\ (\E i \in DOMAIN batch.unit : batch.unit[i] = "err") =>
         /\ batch.pc \in {"counting", "failed"}
         /\ batch.files = {}
         /\ batch.collected = <<>>
         /\ batch.all_bins = <<>>
         /\ batch.prepared_counts = <<>>
    /\ batch.pc \in PostCollect => all_ok(batch.unit)
    /\ (batch.pc = "failed" /\ batch.error # "write") => batch.files = {}

\* c1 had returned Ok with its two windows when c2 failed
C17_Witness ==
    /\ batch.pc = "failed"
    /\ batch.error = "unit"
    /\ batch.mode = "by_size"
    /\ batch.chromosomes = <<"c1", "c2">>
    /\ batch.unit = <<"ok", "err">>
    /\ Len(batch.results[1]) = 2
    /\ batch.files = {}

NoRepeats(l) == \A i, j \in 1..Len(l) : i # j => l[i] # l[j]

InList(line) == line[1] \in Range(batch.chromosomes)

\* The lines of the BED file on the listed chromosomes, in file order
KeptLines == SelectSeq(batch.bed, InList)

Aligned ==
    /\ Len(batch.matrix_rows) = Len(batch.bed_lines)
    /\ \A i \in 1..Len(batch.bed_lines) :
         batch.matrix_rows[i] = batch.bed_lines[i]

\* C18 as stated: in by-bed mode the rows and lines are in strictly
\* increasing original window index and row i and line i are of the same
\* window.
C18_StrictlyIncreasing ==
    (batch.pc = "done" /\ batch.mode = "by_bed") =>
        /\ \A i \in 1..(Len(batch.bed_lines) - 1) :
             batch.bed_lines[i][4] < batch.bed_lines[i + 1][4]
        /\ Aligned

\* C18 as the run does it: in by-bed mode the rows and lines are in
\* non-decreasing original window index, two of the same index being the
\* same window of a chromosome named more than once; with no chromosome
\* named twice the index increases strictly and line i is the i-th window
\* of the file on a listed chromosome; row i and line i are of the same
\* window; in by-size mode rows and lines stay in generation order.
C18_OrderRestored ==
    /\ (batch.pc = "done" /\ batch.mode = "by_bed") =>
         /\ \A i \in 1..(Len(batch.bed_lines) - 1) :
              /\ batch.bed_lines[i][4] <= batch.bed_lines[i + 1][4]
              /\ batch.bed_lines[i][4] = batch.bed_lines[i + 1][4]
                    => batch.bed_lines[i] = batch.bed_lines[i + 1]
         /\ NoRepeats(batch.chromosomes) =>
              /\ Len(batch.bed_lines) = Len(KeptLines)
              /\ \A i \in 1..Len(batch.bed_lines) :
                   batch.bed_lines[i] =
                       <<KeptLines[i][1], KeptLines[i][2],
                         Min(KeptLines[i][3], ChromLenOf(KeptLines[i][1])),
                         i - 1>>
         /\ Aligned
    /\ (batch.pc = "done" /\ batch.mode = "by_size") =>
         /\ batch.bed_lines = Infos(ExpectedRows)
         /\ Aligned

\* The file names c1 first, the chromosome list c2 first: the lines come
\* out in the order of the file
C18_Witness ==
    /\ batch.pc = "done"
    /\ batch.mode = "by_bed"
    /\ batch.chromosomes = <<"c2", "c1">>
    /\ batch.bed = <<<<"c1", 1, 2>>, <<"c2", 0, 1>>>>
    /\ batch.bed_lines = <<<<"c1", 1, 2, 0>>, <<"c2", 0, 1, 1>>>>
    /\ batch.matrix_rows = batch.bed_lines

InvalidSizes(l) ==
    \E i \in 1..Len(l) :
        \/ l[i] = 0
        \/ l[i] > 27
        \/ \E j \in 1..Len(l) : j # i /\ l[j] = l[i]

\* C19: with a 0, a size above 27 or a repeated size build_kmer_specs
\* returns an error and no chromosome unit of the run is ever started;
\* otherwise it returns one KmerSpec per requested size, keyed by it.
C19_EagerValidation ==
    /\ (batch.entry = "lib" /\ batch.pc # "start") =>
         IF InvalidSizes(batch.kmer_sizes)
         THEN batch.pc = "lib_err"
         ELSE /\ batch.pc = "lib_ok"
              /\ DOMAIN batch.kmer_specs = Range(batch.kmer_sizes)
              /\ \A k \in DOMAIN batch.kmer_specs :
                   batch.kmer_specs[k] = KmerSpec(k)
    /\ (batch.entry = "run" /\ InvalidSizes(batch.kmer_sizes)) =>
         /\ batch.pc \in {"start", "parsed", "loaded", "usage_error",
                          "failed"}
         /\ batch.unit = <<>>
         /\ batch.completion = <<>>
         /\ batch.files = {}
    /\ (batch.entry = "run" /\ batch.pc \in {"counting"} \cup PostCollect) =>
         /\ DOMAIN batch.kmer_specs = Range(batch.kmer_sizes)
         /\ \A k \in DOMAIN batch.kmer_specs : batch.kmer_specs[k].k = k

\* --kmer-sizes 1,1 with two chromosomes: the run has failed on the sizes
\* and there is no unit
C19_Witness ==
    /\ batch.entry = "run"
    /\ batch.pc = "failed"
    /\ batch.error = "kmer_sizes"
    /\ batch.kmer_sizes = <<1, 1>>
    /\ Len(batch.chromosomes) = 2
    /\ batch.unit = <<>>

(***************************************************************************)
(* choose_width called on its own: it is pub and takes any usize.  A usize *)
(* of 64 bits is four 16-bit limbs, k = lo + 2^32 * hi with lo below 2^16. *)
(* 5u128.pow overflows from 5^56 on: with overflow checks the call panics, *)
(* without them the power wraps and the tests go on with the wrapped       *)
(* value.                                                                  *)
(***************************************************************************)
\* Largest low word of an argument of choose_width
MaxWidthArg == 57

WidthArgs == {<<lo, 0, hi, 0>> : lo \in 0..MaxWidthArg, hi \in 0..1}

\* k as u32: the two low limbs
as_u32(k) == k[1] + k[2] * Limb

\* Whether 5u128.pow(k as u32) leaves the 128 bits
pow_overflows(k) == WrapPow(U128(1), 5, as_u32(k)).o

WidthInit ==
    /\ \E k \in WidthArgs :
         widthsel = [pc |-> "call", k |-> k,
                     out |-> [ok |-> FALSE, width |-> "none",
                              sentinel_none |-> U64(0),
                              sentinel_n |-> U64(0)]]
    /\ codec = CodecIdle
    /\ merge = MergeIdle
    /\ mask = MaskIdle
    /\ overlap = OverlapIdle
    /\ chrom = ChromIdle
    /\ counting = UnitIdle
    /\ folding = UnitIdle
    /\ universe = UnitIdle
    /\ writing = UnitIdle
    /\ batch = UnitIdle
    /\ LastIdle

\* The call returns: the power did not overflow, or it wrapped
ChooseWidthReturn ==
    /\ widthsel.pc = "call"
    /\ widthsel' = [widthsel EXCEPT
                      !.pc = "returned",
                      !.out = choose_width(as_u32(widthsel.k))]
    /\ UNCHANGED <<codec, merge, mask, overlap, chrom>>
    /\ UNCHANGED <<counting, folding, universe, writing, batch>>
    /\ UNCHANGED last

\* The power overflows in a build with overflow checks: the thread panics
ChooseWidthPanic ==
    /\ widthsel.pc = "call"
    /\ pow_overflows(widthsel.k)
    /\ widthsel' = [widthsel EXCEPT !.pc = "panicked"]
    /\ UNCHANGED <<codec, merge, mask, overlap, chrom>>
    /\ UNCHANGED <<counting, folding, universe, writing, batch>>
    /\ UNCHANGED last

WidthNext == ChooseWidthReturn \/ ChooseWidthPanic

SpecWidth == WidthInit /\ [][WidthNext]_vars

\* k >= 28 for a usize k
AtLeast28(k) == k[1] >= 28 \/ k[2] # 0 \/ k[3] # 0 \/ k[4] # 0

\* C20: for every k >= 28 choose_width returns an error, never a width and
\* never a panic; for every k in 1..=27 it returns a width.
C20_WidthSelectionError ==
    widthsel.pc \in {"returned", "panicked"} =>
        IF AtLeast28(widthsel.k)
        THEN widthsel.pc = "returned" /\ ~widthsel.out.ok
        ELSE widthsel.k[1] >= 1 =>
                 widthsel.pc = "returned" /\ widthsel.out.ok

\* What does hold: the answer is that of k as u32, so a width for
\* k as u32 in 0..27 and, when the call returns, an error from 28 on
C20_TruncatedArgument ==
    widthsel.pc = "returned" =>
        (widthsel.out.ok <=> as_u32(widthsel.k) <= 27)

(***************************************************************************)
(* The readers of BED text: load_windows (bed.rs) and load_blacklist       *)
(* (blacklist.rs).  A line is its first three whitespace-separated fields, *)
(* a field a sequence of characters.                                       *)
(***************************************************************************)
Digits == {"0", "1", "2", "3", "4", "5", "6", "7", "8", "9"}

DigitVal(c) ==
    CASE c = "0" -> 0 [] c = "1" -> 1 [] c = "2" -> 2 [] c = "3" -> 3
      [] c = "4" -> 4 [] c = "5" -> 5 [] c = "6" -> 6 [] c = "7" -> 7
      [] c = "8" -> 8 [] c = "9" -> 9

RECURSIVE DecimalOf(_, _)
DecimalOf(ds, acc) ==
    IF ds = <<>> THEN acc
    ELSE DecimalOf(Tail(ds), acc * 10 + DigitVal(Head(ds)))

\* str::parse::<u64>: an optional `+`, then one or more digits
parse_u64(f) ==
    LET ds == IF f # <<>> /\ Head(f) = "+" THEN Tail(f) ELSE f
    IN  IF ds = <<>> \/ \E i \in 1..Len(ds) : ds[i] \notin Digits
        THEN [ok |-> FALSE, v |-> 0]
        ELSE [ok |-> TRUE, v |-> DecimalOf(ds, 0)]

ParseFields == {<<"2">>, <<"+", "1">>, <<"x">>, <<"1", "x">>}

ParseLine == {<<c, a, b>> : c \in ChromNames, a \in ParseFields,
                            b \in ParseFields}

\* load_windows up to its sort: the lines of the listed chromosomes with
\* their coordinates parsed, or the first parse error
RECURSIVE load_windows_parse(_, _, _, _)
load_windows_parse(lines, chromosomes, i, bed) ==
    IF i > Len(lines) THEN [err |-> "none", bed |-> bed]
    ELSE LET chr == lines[i][1]
             start == parse_u64(lines[i][2])
             end == parse_u64(lines[i][3])
         IN  IF chr \notin Range(chromosomes)
             THEN load_windows_parse(lines, chromosomes, i + 1, bed)
             ELSE IF ~start.ok
             THEN [err |-> "Parsing window start", bed |-> <<>>]
             ELSE IF ~end.ok
             THEN [err |-> "Parsing window end", bed |-> <<>>]
             ELSE load_windows_parse(lines, chromosomes, i + 1,
                                     Append(bed, <<chr, start.v, end.v>>))

\* The loop of load_blacklist that fails on a field that does not parse
RECURSIVE load_blacklist_loop_strict(_, _, _, _, _)
load_blacklist_loop_strict(lines, min_size, chromosomes, i, map) ==
    IF i > Len(lines) THEN [err |-> "none", map |-> map]
    ELSE LET chr == lines[i][1]
             start == parse_u64(lines[i][2])
             end == parse_u64(lines[i][3])
         IN  IF chr \notin Range(chromosomes)
             THEN load_blacklist_loop_strict(lines, min_size, chromosomes,
                                             i + 1, map)
             ELSE IF ~start.ok \/ ~end.ok
             THEN [err |-> "Parsing blacklist", map |-> <<>>]
             ELSE IF end.v > start.v /\ end.v - start.v >= min_size
             THEN load_blacklist_loop_strict(
                      lines, min_size, chromosomes, i + 1,
                      MapPut(map, chr,
                             Append(IF chr \in DOMAIN map THEN map[chr]
                                    ELSE <<>>, <<start.v, end.v>>)))
             ELSE load_blacklist_loop_strict(lines, min_size, chromosomes,
                                             i + 1, map)

\* The loop of load_blacklist over the lines: the line is skipped when its
\* chromosome is not listed or when start or end does not parse
RECURSIVE load_blacklist_loop(_, _, _, _, _)
load_blacklist_loop(lines, min_size, chromosomes, i, map) ==
    IF i > Len(lines) THEN [err |-> "none", map |-> map]
    ELSE LET chr == lines[i][1]
             start == parse_u64(lines[i][2])
             end == parse_u64(lines[i][3])
         IN  IF chr \notin Range(chromosomes)
             THEN load_blacklist_loop(lines, min_size, chromosomes, i + 1,
                                      map)
             ELSE IF ~start.ok
             THEN load_blacklist_loop(lines, min_size, chromosomes, i + 1,
                                      map)
             ELSE IF ~end.ok
             THEN load_blacklist_loop(lines, min_size, chromosomes, i + 1,
                                      map)
             ELSE IF end.v > start.v /\ end.v - start.v >= min_size
             THEN load_blacklist_loop(
                      lines, min_size, chromosomes, i + 1,
                      MapPut(map, chr,
                             Append(IF chr \in DOMAIN map THEN map[chr]
                                    ELSE <<>>, <<start.v, end.v>>)))
             ELSE load_blacklist_loop(lines, min_size, chromosomes, i + 1,
                                      map)

\* load_blacklist: the loop, then every list sorted
load_blacklist(lines, min_size, chromosomes) ==
    LET r == load_blacklist_loop(lines, min_size, chromosomes, 1, <<>>)
    IN  [err |-> r.err,
         map |-> [c \in DOMAIN r.map |-> sort_unstable(r.map[c])]]

ParseInit ==
    /\ \E lines \in ListsUpTo(ParseLine, MaxParseLines),
          chromosomes \in {<<"c1">>, <<"c1", "c2">>},
          min_size \in 1..2 :
         parsing = [pc |-> "input", reader |-> "none", lines |-> lines,
                    chromosomes |-> chromosomes, min_size |-> min_size,
                    err |-> "none", out |-> <<>>]
    /\ codec = CodecIdle
    /\ merge = MergeIdle
    /\ mask = MaskIdle
    /\ overlap = OverlapIdle
    /\ chrom = ChromIdle
    /\ counting = UnitIdle
    /\ folding = UnitIdle
    /\ universe = UnitIdle
    /\ writing = UnitIdle
    /\ batch = UnitIdle
    /\ widthsel = UnitIdle
    /\ pipeline = UnitIdle

ParseFrame ==
    /\ UNCHANGED <<codec, merge, mask, overlap, chrom>>
    /\ UNCHANGED <<counting, folding, universe, writing, batch, widthsel>>
    /\ UNCHANGED pipeline

LoadWindowsOk ==
    /\ parsing.pc = "input"
    /\ \E r \in {load_windows_parse(parsing.lines, parsing.chromosomes,
                                    1, <<>>)} :
         /\ r.err = "none"
         /\ \E m \in load_windows(r.bed, parsing.chromosomes) :
              parsing' = [parsing EXCEPT !.pc = "done",
                                         !.reader = "load_windows",
                                         !.out = m]
    /\ ParseFrame

LoadWindowsErr ==
    /\ parsing.pc = "input"
    /\ \E r \in {load_windows_parse(parsing.lines, parsing.chromosomes,
                                    1, <<>>)} :
         /\ r.err # "none"
         /\ parsing' = [parsing EXCEPT !.pc = "done",
                                       !.reader = "load_windows",
                                       !.err = r.err]
    /\ ParseFrame

LoadBlacklist ==
    /\ parsing.pc = "input"
    /\ \E r \in {load_blacklist(parsing.lines, parsing.min_size,
                                parsing.chromosomes)} :
         parsing' = [parsing EXCEPT !.pc = "done",
                                    !.reader = "load_blacklist",
                                    !.err = r.err, !.out = r.map]
    /\ ParseFrame

ParseNext == LoadWindowsOk \/ LoadWindowsErr \/ LoadBlacklist

SpecParse == ParseInit /\ [][ParseNext]_vars

\* A field with a character that is neither a digit nor a sign
NonNumeric(f) == \E i \in 1..Len(f) : f[i] \notin Digits \cup {"+"}

Selected(line) == line[1] \in Range(parsing.chromosomes)

\* The lines of a listed chromosome with a non-numeric start or end
BadLines ==
    {i \in 1..Len(parsing.lines) :
        /\ Selected(parsing.lines[i])
        /\ NonNumeric(parsing.lines[i][2]) \/ NonNumeric(parsing.lines[i][3])}

GoodIntervals(c) ==
    {<<parse_u64(parsing.lines[i][2]).v, parse_u64(parsing.lines[i][3]).v>> :
        i \in {j \in 1..Len(parsing.lines) :
                  /\ parsing.lines[j][1] = c
                  /\ j \notin BadLines
                  /\ parse_u64(parsing.lines[j][3]).v
                       > parse_u64(parsing.lines[j][2]).v
                  /\ parse_u64(parsing.lines[j][3]).v
                       - parse_u64(parsing.lines[j][2]).v
                       >= parsing.min_size}}

MergedAsPromised ==
    /\ SortedByStart(merge.out)
    /\ NonTouching(merge.out)
    /\ CoveredBy(merge.out) = CoveredBy(merge.ivs)

\* The list with its elements rearranged by f
Rearranged(ivs, f) == [i \in DOMAIN ivs |-> ivs[f[i]]]

\* C22 as stated: merge_intervals, given non-empty intervals in any order,
\* returns a sorted, non-touching list covering their union, the one it
\* returns for the sorted list.
C22_MergeAnyOrder ==
    (merge.pc = "done" /\ merge.op = "merge_intervals"
     /\ NonEmpty(merge.ivs)) =>
        /\ MergedAsPromised
        /\ merge.out = merge_intervals(sort_unstable(merge.ivs))

\* C22 as the code does it: the sort is load_blacklists', which sorts and
\* then calls merge_intervals; its result is sorted, non-touching, covers
\* the union of the intervals and is the same for every order of the
\* list.  merge_intervals alone gives this result when its list is sorted
\* by start.
C22_MergeAfterSort ==
    /\ (merge.pc = "done" /\ merge.op = "load_blacklists") =>
         /\ MergedAsPromised
         /\ \A f \in Permutations(DOMAIN merge.ivs) :
              merge_intervals(sort_unstable(Rearranged(merge.ivs, f)))
                  = merge.out
    /\ (merge.pc = "done" /\ merge.op = "merge_intervals"
        /\ NonEmpty(merge.ivs) /\ SortedByStart(merge.ivs)) =>
         /\ MergedAsPromised
         /\ merge.out = merge_intervals(sort_unstable(merge.ivs))

\* Unsorted and touching: load_blacklists returns the one interval
C22_Witness ==
    /\ merge.pc = "done"
    /\ merge.op = "load_blacklists"
    /\ merge.ivs = <<<<2, 3>>, <<0, 1>>, <<1, 2>>>>
    /\ merge.out = <<<<0, 3>>>>

(***************************************************************************)
(* is_full: queries that share one pointer.                                *)
(***************************************************************************)
FullInit ==
    /\ \E ivs \in {l \in ListsUpTo(Intervals(MaxOvCoord), MaxOvIvs) :
                     SortedDisjoint(l)} :
         overlap = [pc |-> "asking", ivs |-> ivs, ptr |-> 0, nq |-> 0,
                    start |-> 0, end |-> 0, full |-> FALSE,
                    prev_ptr |-> 0, ascending |-> TRUE]
    /\ codec = CodecIdle
    /\ merge = MergeIdle
    /\ mask = MaskIdle
    /\ chrom = ChromIdle
    /\ LaterIdle

IsFullQuery ==
    /\ overlap.pc = "asking"
    /\ overlap.nq < MaxQueries
    /\ \E q \in Intervals(MaxOvCoord) :
         LET r == is_full(overlap.ivs, q[1], q[2], overlap.ptr)
         IN  overlap' = [overlap EXCEPT
                 !.ptr = r.ptr, !.nq = overlap.nq + 1,
                 !.start = q[1], !.end = q[2], !.full = r.full,
                 !.prev_ptr = overlap.ptr,
                 !.ascending = overlap.ascending
                               /\ (overlap.nq = 0 \/ overlap.start <= q[1])]
    /\ UNCHANGED <<codec, merge, mask, chrom>>
    /\ UNCHANGED later

FullNext == IsFullQuery

SpecFull == FullInit /\ [][FullNext]_vars

\* Some single interval of the list contains [start, end)
ContainedInOne ==
    \E j \in 1..Len(overlap.ivs) :
        overlap.ivs[j][1] <= overlap.start /\ overlap.end <= overlap.ivs[j][2]

\* C23: with sorted disjoint intervals and queries in non-decreasing start
\* order on one pointer, is_full returns true exactly when one interval
\* contains [start, end); the pointer never moves back and never exceeds
\* the number of intervals.
C23_FullContainment ==
    (overlap.pc = "asking" /\ overlap.nq > 0) =>
        /\ overlap.ascending => (overlap.full <=> ContainedInOne)
        /\ overlap.prev_ptr <= overlap.ptr
        /\ overlap.ptr <= Len(overlap.ivs)

\* The second query has moved the pointer to the second interval, which
\* contains it
C23_Witness ==
    /\ overlap.pc = "asking"
    /\ overlap.nq = 2
    /\ overlap.ascending
    /\ Len(overlap.ivs) = 2
    /\ overlap.prev_ptr = 0
    /\ overlap.ptr = 1
    /\ overlap.full
    /\ overlap.ivs[2][1] < overlap.start
    /\ overlap.end < overlap.ivs[2][2]

\* C25: with sorted disjoint intervals and queries in any order on one
\* pointer, the covered length a query reports is never above the number
\* of covered positions of [start, end), and equals it while all queries so
\* far came with non-decreasing starts.
C25_OutOfOrderUnderCounts ==
    (overlap.pc = "ready" /\ overlap.nq > 0) =>
        /\ overlap.covered
             <= TrulyCovered(overlap.ivs, overlap.start, overlap.end)
        /\ overlap.ascending =>
             overlap.covered
               = TrulyCovered(overlap.ivs, overlap.start, overlap.end)

\* A query behind the pointer: the interval it lies in was skipped by the
\* query before, and the reported length is below the true one
C25_Witness ==
    /\ overlap.pc = "ready"
    /\ overlap.nq = 2
    /\ ~overlap.ascending
    /\ overlap.prev_ptr > 0
    /\ overlap.covered
         < TrulyCovered(overlap.ivs, overlap.start, overlap.end)

(***************************************************************************)
(* What a run leaves on disk.                                              *)
(***************************************************************************)
\* Every output file of the run: matrix and motif list of every size, and
\* the coordinate listing unless --global
AllFiles ==
    files_of(Range(batch.kmer_sizes))
        \cup (IF batch.mode = "global" THEN {} ELSE {<<"bins.bed", 0>>})

\* C24: a run that succeeds has written every output file, a run that
\* returns an error has written none.
C24_AllOrNothing ==
    batch.entry = "run" =>
        /\ batch.pc = "done" => batch.files = AllFiles
        /\ batch.pc \in {"failed", "usage_error"} => batch.files = {}

(***************************************************************************)
(* collapse_map on a map of motif counts, and on its own result.           *)
(***************************************************************************)
\* AC/GT and CA/TG are reverse complements, AT is its own, so are ACG/CGT
\* and AN/NT
CollapseMotifs ==
    {<<"A", "C">>, <<"G", "T">>, <<"A", "T">>, <<"C", "A">>, <<"T", "G">>,
     <<"A", "C", "G">>, <<"C", "G", "T">>, <<"A", "N">>, <<"N", "T">>}

CollapseMaps ==
    UNION {[keys -> 1..MaxCollapseCount] :
             keys \in {S \in SUBSET CollapseMotifs :
                          Cardinality(S) <= MaxCollapseKeys}}

CollapseInit ==
    /\ \E map \in CollapseMaps :
         folding = [pc |-> "map", map |-> map, out |-> EmptyMap,
                    again |-> EmptyMap]
    /\ codec = CodecIdle
    /\ merge = MergeIdle
    /\ mask = MaskIdle
    /\ overlap = OverlapIdle
    /\ chrom = ChromIdle
    /\ counting = UnitIdle
    /\ universe = UnitIdle
    /\ writing = UnitIdle
    /\ batch = UnitIdle
    /\ widthsel = UnitIdle
    /\ LastIdle

CollapseFrame ==
    /\ UNCHANGED <<codec, merge, mask, overlap, chrom>>
    /\ UNCHANGED <<counting, universe, writing, batch, widthsel>>
    /\ UNCHANGED last

CollapseMap ==
    /\ folding.pc = "map"
    /\ folding' = [folding EXCEPT !.pc = "collapsed",
                                  !.out = collapse_map(folding.map)]
    /\ CollapseFrame

CollapseAgain ==
    /\ folding.pc = "collapsed"
    /\ folding' = [folding EXCEPT !.pc = "done",
                                  !.again = collapse_map(folding.out)]
    /\ CollapseFrame

CollapseNext == CollapseMap \/ CollapseAgain

SpecCollapse == CollapseInit /\ [][CollapseNext]_vars

\* The sum of the counts of the keys in S
RECURSIVE SumCounts(_, _)
SumCounts(map, S) ==
    IF S = {} THEN 0
    ELSE LET x == CHOOSE y \in S : TRUE
         IN  map[x] + SumCounts(map, S \ {x})

FoldingTo(key) == {mo \in DOMAIN folding.map : canonical(mo) = key}

\* C26: every key of collapse_map's result is canonical, its count is the
\* sum of the counts of the input motifs folding to it, every input motif
\* has its canonical key in the result, the total count is kept, and
\* collapse_map of the result is the result.
C26_CollapseMap ==
    /\ folding.pc \in {"collapsed", "done"} =>
         /\ \A key \in DOMAIN folding.out :
              /\ canonical(key) = key
              /\ folding.out[key] = SumCounts(folding.map, FoldingTo(key))
         /\ DOMAIN folding.out = {canonical(mo) : mo \in DOMAIN folding.map}
         /\ SumCounts(folding.out, DOMAIN folding.out)
              = SumCounts(folding.map, DOMAIN folding.map)
    /\ folding.pc = "done" => folding.again = folding.out

\* AC and GT have become one entry, the palindrome AT stays
C26_Witness ==
    /\ folding.pc = "done"
    /\ folding.map = [mo \in {<<"A", "C">>, <<"G", "T">>, <<"A", "T">>} |->
                        IF mo = <<"A", "C">> THEN 2 ELSE 1]
    /\ folding.out = [mo \in {<<"A", "C">>, <<"A", "T">>} |->
                        IF mo = <<"A", "C">> THEN 3 ELSE 1]
    /\ folding.again = folding.out

(***************************************************************************)
(* The written arrays and the iteration order of the count maps.           *)
(***************************************************************************)
\* One iteration order for the map of every row
RowOrders(bins) ==
    {orders \in [1..Len(bins) -> UNION {KeyOrders(hm) : hm \in WriterMaps}] :
        \A r \in 1..Len(bins) : orders[r] \in KeyOrders(bins[r])}

\* C27: for given count maps and motif list the written dense matrix is
\* the one fixed by the counts, and the written sparse row, column and
\* value arrays are the same for every iteration order of the maps.
C27_OutputDeterminism ==
    (writing.pc = "done" /\ writing.bins # <<>>) =>
        IF writing.save_sparse
        THEN \A orders \in RowOrders(writing.bins) :
                 write_category_sparse(writing.bins, writing.motifs, orders)
                     = writing.out
        ELSE \A r \in 1..Len(writing.bins), c \in 1..Len(writing.motifs) :
                 writing.out.mat[r][c]
                     = CountIn(writing.bins[r], writing.motifs[c])

\* What does hold of the sparse arrays in every order: the same triples
SparseTriples(out) ==
    {<<out.row[i], out.col[i], out.val[i]>> : i \in 1..Len(out.row)}

C27_SameTriples ==
    (writing.pc = "done" /\ writing.bins # <<>> /\ writing.save_sparse) =>
        \A orders \in RowOrders(writing.bins) :
            LET other == write_category_sparse(writing.bins, writing.motifs,
                                               orders)
            IN  /\ SparseTriples(other) = SparseTriples(writing.out)
                /\ Len(other.row) = Len(writing.out.row)
                /\ other.row = writing.out.row

(***************************************************************************)
(* kmer_codec.rs: the codes of one size stored in their width and read     *)
(* back.  The 64-bit codes that build_codes_per_k down-casts are kept      *)
(* beside the stored ones for comparison.                                  *)
(***************************************************************************)
StoreInit ==
    /\ \E k \in 1..MaxK : \E seq \in CodecSeqs(k) :
         codec = [pc |-> "storing", k |-> k, seq |-> seq]
    /\ merge = MergeIdle
    /\ mask = MaskIdle
    /\ overlap = OverlapIdle
    /\ chrom = ChromIdle
    /\ LaterIdle

\* build_kmer_specs(&[k]) and build_codes_per_k(seq, &specs)
StoreBuild ==
    /\ codec.pc = "storing"
    /\ LET specs == build_kmer_specs({codec.k})
           spec == specs[codec.k]
       IN  codec' = [pc |-> "stored", k |-> codec.k, seq |-> codec.seq,
                     spec |-> spec,
                     raw |-> build_codes(codec.seq, spec.k,
                                         spec.sentinel_none, spec.sentinel_n),
                     codes |-> build_codes_per_k(codec.seq, specs)[codec.k]]
    /\ UNCHANGED <<merge, mask, overlap, chrom>>
    /\ UNCHANGED later

\* codes.get(idx) at every index
StoreRead ==
    /\ codec.pc = "stored"
    /\ codec' = [pc |-> "read", k |-> codec.k, seq |-> codec.seq,
                 spec |-> codec.spec, raw |-> codec.raw,
                 codes |-> codec.codes,
                 read |-> [j \in 1..Len(codec.codes.v) |->
                             KmerCodes_get(codec.codes, j - 1)]]
    /\ UNCHANGED <<merge, mask, overlap, chrom>>
    /\ UNCHANGED later

StoreNext ==
    \/ StoreBuild
    \/ StoreRead

SpecStore == StoreInit /\ [][StoreNext]_vars

\* The positions whose k bases are all of A, C, G, T
RealAt(seq, k) ==
    {j \in 1..Len(seq) :
        /\ j + k - 1 <= Len(seq)
        /\ \A d \in 0..(k - 1) : LUT(seq[j + d]) < 4}

\* C28: for every k in 1..27, reading the stored codes back returns the
\* 64-bit code of build_codes at every position; every real code is at
\* most the maximum of the width minus 2, so it equals neither sentinel,
\* and the two sentinels differ.
C28_LosslessStorage ==
    codec.pc = "read" =>
        LET sp == codec.spec
            top == WrapSub(WidthMax(sp.width), U64(2)).v
        IN  /\ Len(codec.read) = Len(codec.seq)
            /\ codec.read = codec.raw
            /\ sp.sentinel_none # sp.sentinel_n
            /\ \A j \in 1..Len(codec.seq) :
                 IF j \in RealAt(codec.seq, codec.k)
                 THEN /\ LimbsLe(codec.read[j], top)
                      /\ codec.read[j] # sp.sentinel_none
                      /\ codec.read[j] # sp.sentinel_n
                 ELSE codec.read[j] \in {sp.sentinel_none, sp.sentinel_n}

C28_Witness ==
    /\ codec.pc = "read"
    /\ codec.k = 27
    /\ codec.spec.width = "U64"
    /\ RealAt(codec.seq, codec.k) # {}
    /\ \E j \in 1..Len(codec.seq) : codec.read[j] = codec.spec.sentinel_n
    /\ \E j \in 1..Len(codec.seq) : codec.read[j] = codec.spec.sentinel_none

(***************************************************************************)
(* Properties of the windows of a chromosome unit.                         *)
(***************************************************************************)
\* The positions the scan of a window reads: win_start..min(win_end, len)
ScannedPositions(w, chrom_len) ==
    {p \in 0..(MaxChromLen + 1) : w[1] <= p /\ p < Min(w[2], chrom_len)}

WellFormedBin(b) ==
    /\ b.end > b.start
    /\ ~b.underflow
    /\ b.len > 0
    /\ 0 <= b.covered
    /\ b.covered <= b.len

\* C30: every window a finished unit handled, in every windowing mode, has
\* its clipped end strictly after its start, so end - start is positive
\* and does not underflow, the scan reads only indices below the chromosome
\* length, and the overlap fraction lies between 0 and 1.
C30_WellFormedWindows ==
    chrom.pc = "Done" =>
        /\ Len(chrom.bin_info) = Len(chrom.windows)
        /\ \A w \in 1..Len(chrom.windows) :
             /\ WellFormedBin(chrom.bin_info[w])
             /\ \A p \in ScannedPositions(chrom.windows[w], chrom.chrom_len) :
                  p < chrom.chrom_len

\* What does hold: fixed-size windows are well formed, and so are the
\* global window of a chromosome with at least one base and the listed
\* windows that start before both their end and the chromosome's end; no
\* scan reads at or beyond the chromosome length.
C30_WellFormedWhenInside ==
    chrom.pc = "Done" =>
        /\ Len(chrom.bin_info) = Len(chrom.windows)
        /\ \A w \in 1..Len(chrom.windows) :
             /\ \A p \in ScannedPositions(chrom.windows[w], chrom.chrom_len) :
                  p < chrom.chrom_len
             /\ chrom.bin_info[w].end
                  = Min(chrom.windows[w][2], chrom.chrom_len)
             /\ (\/ chrom.mode = "by_size"
                 \/ /\ chrom.windows[w][1] < chrom.windows[w][2]
                    /\ chrom.windows[w][1] < chrom.chrom_len)
                => WellFormedBin(chrom.bin_info[w])

(***************************************************************************)
(* From the window scan to the written matrix, for one chromosome with     *)
(* fixed-size windows: process_chrom's scan, split_and_decode_counts on    *)
(* every window, prepare_decoded_counts, and the dense write of every k.   *)
(***************************************************************************)
\* The loop with a fresh bucket for every entry in place of the k's bucket
RECURSIVE split_and_decode_loop_fresh(_, _, _, _, _)
split_and_decode_loop_fresh(counts, kmer_specs, order, j, count_bins) ==
    IF j > Len(order) THEN count_bins
    ELSE LET kmer == order[j]
             spec == kmer_specs[kmer[1]]
             motif == decode_kmer(kmer[2], spec.k, spec.sentinel_none,
                                  spec.sentinel_n)
         IN  IF ~HasNoN(motif)
             THEN split_and_decode_loop_fresh(counts, kmer_specs, order,
                                              j + 1, count_bins)
             ELSE split_and_decode_loop_fresh(
                      counts, kmer_specs, order, j + 1,
                      MapPut(count_bins, kmer[1],
                             MapPut(EmptyMap, motif, counts[kmer])))

\* split_and_decode_counts: the entries of `counts` in the order `order`
RECURSIVE split_and_decode_loop(_, _, _, _, _)
split_and_decode_loop(counts, kmer_specs, order, j, count_bins) ==
    IF j > Len(order) THEN count_bins
    ELSE LET kmer == order[j]
             spec == kmer_specs[kmer[1]]
             motif == decode_kmer(kmer[2], spec.k, spec.sentinel_none,
                                  spec.sentinel_n)
             bucket == IF kmer[1] \in DOMAIN count_bins
                       THEN count_bins[kmer[1]] ELSE EmptyMap
         IN  IF ~HasNoN(motif)
             THEN split_and_decode_loop(counts, kmer_specs, order, j + 1,
                                        count_bins)
             ELSE split_and_decode_loop(
                      counts, kmer_specs, order, j + 1,
                      MapPut(count_bins, kmer[1],
                             MapPut(bucket, motif, counts[kmer])))

split_and_decode_counts(counts, kmer_specs, order) ==
    split_and_decode_loop(counts, kmer_specs, order, 1, EmptyMap)

\* prepare_decoded_counts: every window's map of k and the motifs of k
prepare_decoded_counts(windows, canon, kmer_specs) ==
    LET cat(k) == prepare_kmer_category(windows, kmer_specs, k, canon,
                                        k <= EnsureAllMax)
    IN  [out |-> [i \in 1..Len(windows) |->
                    [k \in DOMAIN kmer_specs |-> cat(k).bins[i]]],
         motifs_by_k |-> [k \in DOMAIN kmer_specs |-> cat(k).motifs]]

\* ref_bins of write_decoded_counts_matrix for one k
ref_bins(prepared_windows, k) ==
    [idx \in 1..Len(prepared_windows) |->
        IF k \in DOMAIN prepared_windows[idx]
        THEN prepared_windows[idx][k] ELSE EmptyMap]

PipeBytes == {"A", "C", "T", "N"}

\* Short sequences with the sizes 1 and 2, and two-run sequences just long
\* enough for a size above the all-motifs limit
PipeArgs ==
    {[seq |-> seq, ks |-> ks] :
        seq \in UNION {SeqsOfLen(PipeBytes, n) : n \in 0..MaxPipeLen},
        ks \in {{1}, {2}, {1, 2}}}
    \cup
    {[seq |-> [j \in 1..n |-> IF j <= a THEN x ELSE y],
      ks |-> ks] :
        n \in (EnsureAllMax + 1)..(EnsureAllMax + 2),
        a \in 0..(EnsureAllMax + 2),
        x \in {"A", "T", "N"}, y \in {"A", "T", "N"},
        ks \in {{EnsureAllMax + 1}, {1, EnsureAllMax + 1}}}

PipeInit ==
    /\ \E a \in PipeArgs, canon \in BOOLEAN :
         pipeline = [pc |-> "input", seq |-> a.seq,
                     kmer_specs |-> build_kmer_specs(a.ks),
                     canonical |-> canon, windows |-> <<>>,
                     counts |-> <<>>, decoded |-> <<>>, prepared |-> <<>>,
                     motifs_by_k |-> <<>>, written |-> <<>>]
    /\ codec = CodecIdle
    /\ merge = MergeIdle
    /\ mask = MaskIdle
    /\ overlap = OverlapIdle
    /\ chrom = ChromIdle
    /\ counting = UnitIdle
    /\ folding = UnitIdle
    /\ universe = UnitIdle
    /\ writing = UnitIdle
    /\ batch = UnitIdle
    /\ widthsel = UnitIdle
    /\ parsing = UnitIdle

PipeFrame ==
    /\ UNCHANGED <<codec, merge, mask, overlap, chrom>>
    /\ UNCHANGED <<counting, folding, universe, writing, batch, widthsel>>
    /\ UNCHANGED parsing

\* process_chrom with --by-size: the codes, the windows, the scan
PipeScan ==
    /\ pipeline.pc = "input"
    /\ \E sz \in 1..(MaxPipeLen + 1) :
       \E order \in Orders(DOMAIN pipeline.kmer_specs) :
       \E codes \in {build_codes_per_k(pipeline.seq, pipeline.kmer_specs)} :
         LET chrom_len == Len(pipeline.seq)
             windows == by_size_windows(chrom_len, sz)
             encs == [j \in 1..Len(order) |->
                        Enc(order[j], pipeline.kmer_specs, codes)]
         IN  pipeline' = [pipeline EXCEPT
                 !.pc = "scanned",
                 !.windows = windows,
                 !.counts = scan_windows(windows, encs, chrom_len)]
    /\ PipeFrame

\* run: split_and_decode_counts on the next window's counts
PipeDecode ==
    /\ pipeline.pc = "scanned"
    /\ Len(pipeline.decoded) < Len(pipeline.counts)
    /\ LET c == pipeline.counts[Len(pipeline.decoded) + 1]
       IN  \E order \in KeyOrders(c) :
             pipeline' = [pipeline EXCEPT
                 !.decoded = Append(@, split_and_decode_counts(
                                           c, pipeline.kmer_specs, order))]
    /\ PipeFrame

\* run: prepare_decoded_counts on the decoded windows
PipePrepare ==
    /\ pipeline.pc = "scanned"
    /\ Len(pipeline.decoded) = Len(pipeline.counts)
    /\ \E r \in {prepare_decoded_counts(pipeline.decoded, pipeline.canonical,
                                        pipeline.kmer_specs)} :
         pipeline' = [pipeline EXCEPT
             !.pc = "prepared",
             !.prepared = r.out,
             !.motifs_by_k = r.motifs_by_k]
    /\ PipeFrame

\* write_decoded_counts_matrix, dense: write_category for every k
PipeWrite ==
    /\ pipeline.pc = "prepared"
    /\ pipeline' = [pipeline EXCEPT
           !.pc = "written",
           !.written = [k \in DOMAIN pipeline.kmer_specs |->
                          write_category(ref_bins(pipeline.prepared, k),
                                         pipeline.motifs_by_k[k])]]
    /\ PipeFrame

PipeNext ==
    \/ PipeScan
    \/ PipeDecode
    \/ PipePrepare
    \/ PipeWrite

SpecPipe == PipeInit /\ [][PipeNext]_vars

\* The k-mers of size k that start in window w and hold no N
CountedIn(w, k) ==
    {p \in 0..(Len(pipeline.seq) - 1) :
        /\ pipeline.windows[w][1] <= p
        /\ p < pipeline.windows[w][2]
        /\ (p + 1) \in RealAt(pipeline.seq, k)}

MotifOf(kmer) ==
    decode_kmer(kmer[2], kmer[1], pipeline.kmer_specs[kmer[1]].sentinel_none,
                pipeline.kmer_specs[kmer[1]].sentinel_n)

\* C29: every (k, code) entry of the scan decodes to a motif without N
\* that no other code of that k decodes to, and is found with its count in
\* the decoded window; every motif key of a prepared window map is in the
\* motif list of its k; and every written row sums to the number of
\* k-mers counted in its window.
C29_NoCountLost ==
    pipeline.pc = "written" =>
        /\ \A w \in 1..Len(pipeline.counts) :
             \A kmer \in DOMAIN pipeline.counts[w] :
               /\ HasNoN(MotifOf(kmer))
               /\ kmer[1] \in DOMAIN pipeline.decoded[w]
               /\ MotifOf(kmer) \in DOMAIN pipeline.decoded[w][kmer[1]]
               /\ pipeline.decoded[w][kmer[1]][MotifOf(kmer)]
                    = pipeline.counts[w][kmer]
               /\ \A other \in DOMAIN pipeline.counts[w] :
                    (other[1] = kmer[1] /\ other # kmer)
                        => MotifOf(other) # MotifOf(kmer)
        /\ \A w \in 1..Len(pipeline.prepared) :
             \A k \in DOMAIN pipeline.prepared[w] :
               DOMAIN pipeline.prepared[w][k]
                   \subseteq Range(pipeline.motifs_by_k[k])
        /\ \A k \in DOMAIN pipeline.kmer_specs :
             \A w \in 1..Len(pipeline.windows) :
               /\ pipeline.written[k].written
               /\ SumCounts(pipeline.written[k].mat[w],
                            DOMAIN pipeline.written[k].mat[w])
                    = Cardinality(CountedIn(w, k))
               /\ SumCounts(pipeline.counts[w],
                            {kmer \in DOMAIN pipeline.counts[w] :
                                kmer[1] = k})
                    = Cardinality(CountedIn(w, k))

\* Two windows and two sizes, with an A and a T of the first window folded
\* into one cell
C29_Witness ==
    /\ pipeline.pc = "written"
    /\ pipeline.canonical
    /\ Len(pipeline.windows) = 2
    /\ DOMAIN pipeline.kmer_specs = {1, 2}
    /\ Cardinality(CountedIn(1, 1)) = 2
    /\ Cardinality(CountedIn(2, 1)) = 1
    /\ \A kmer \in DOMAIN pipeline.counts[1] : pipeline.counts[1][kmer] = 1
    /\ \E c \in DOMAIN pipeline.written[1].mat[1] :
         pipeline.written[1].mat[1][c] = 2

====
